---- MODULE Spec2Model ----
(***************************************************************************)
(* Model of the request-time routing core of a2a_marketplace:              *)
(*   - mcp-server/src/catalog.ts  CatalogLibrary (merge + detect filter)   *)
(*   - mcp-server/src/detect.ts   detectProjectContext (probes + cache)    *)
(*   - mcp-server/src/catalog.ts  getEntryById / resolveSource (disk cache)*)
(*   - features/workers/matcher.ts  WorkerMatcher.findMatch                *)
(*   - mcp-server/src/index.ts    the tool-call handler and solve          *)
(* Each subsystem has its own specification over its own variables; the    *)
(* variables of the other subsystems stay at their initial value.          *)
(***************************************************************************)
EXTENDS Integers, Sequences, FiniteSets, TLC

VARIABLES
    \* ---- catalog.ts ----
    bundled,        \* entries loadBundledCatalog() yields, in glob order
    project,        \* entries loadProjectCatalog() yields, in glob order
    catProfile,     \* the profile handed to getRelevantEntries
    relevant,       \* the array getRelevantEntries returned
    catPc,          \* "idle" before the call, "done" after it
    \* ---- detect.ts ----
    disk,           \* workspace path -> what the file system holds there
    cachedProfile,  \* the module's (profile, timestamp) pair, or null
    now,            \* Date.now(), in milliseconds since the model's start
    ticks,          \* how many times the clock has advanced
    calls,          \* the detectProjectContext calls: position and locals
    resetPending,   \* history: clearDetectCache ran and no call started since
    \* ---- catalog.ts, resolution of one entry id ----
    resEntry,       \* the entry loadYamlEntry yields for the id
    cacheFile,      \* ~/.mentat/skills/{id}/latest.md
    clock,          \* Date.now() of the resolving process, in milliseconds
    clockTicks,     \* how many times that clock has advanced
    res,            \* the resolutions of the id: position and locals
    fetched,        \* history: the parsed bodies the fetches have produced
    \* ---- matcher.ts ----
    skillsTable,    \* rows of the skills table, in the order the db scans them
    workersTable,   \* rows of the workers table, in the order the db scans them
    request,        \* the MatchRequest handed to findMatch
    matchResult,    \* the MatchResult findMatch returned
    matchPc,        \* "idle" before the call, "done" after it
    scored,         \* findWorkerMatches' scored array, before sort and filter
    dbLog,          \* the queries findMatch sent to the db, in order
    \* ---- index.ts ----
    catalogDirs,    \* the .yaml files of the two catalog trees, in glob order
    workspaceProfile, \* what detectProjectContext(WORKSPACE_PATH) returns
    pending,        \* the tools/call requests the client has yet to send
    handled         \* history: the tool calls handled so far, with responses

catalogVars == <<bundled, project, catProfile, relevant, catPc>>
detectVars == <<disk, cachedProfile, now, ticks, calls, resetPending>>
resolveVars == <<resEntry, cacheFile, clock, clockTicks, res, fetched>>
matcherVars ==
    <<skillsTable, workersTable, request, matchResult, matchPc, scored, dbLog>>

serverVars == <<catalogDirs, workspaceProfile, pending, handled>>

vars == <<catalogVars, detectVars, resolveVars, matcherVars, serverVars>>

\* What each subsystem's steps leave alone.
outsideCatalog == <<detectVars, resolveVars, matcherVars, serverVars>>
outsideDetect == <<catalogVars, resolveVars, matcherVars, serverVars>>
outsideResolve == <<catalogVars, detectVars, matcherVars, serverVars>>
outsideMatcher == <<catalogVars, detectVars, resolveVars, serverVars>>

ResolveAtRest ==
    /\ resEntry = <<>> /\ cacheFile = <<>> /\ res = <<>>
    /\ clock = 0 /\ clockTicks = 0 /\ fetched = {}

MatcherAtRest ==
    /\ skillsTable = <<>> /\ workersTable = <<>> /\ request = <<>>
    /\ matchResult = <<>> /\ matchPc = "idle" /\ scored = <<>> /\ dbLog = <<>>

ServerAtRest ==
    catalogDirs = <<>> /\ workspaceProfile = <<>> /\ pending = <<>> /\ handled = <<>>

(***************************************************************************)
(* Bounds of the catalog model.                                            *)
(***************************************************************************)
NumDeps == 1        \* dependency names that occur in rules and profiles

DepNames == <<"stripe", "next", "playwright", "resend">>
Deps == {DepNames[i] : i \in 1..NumDeps}
\* config file names that occur in rules and profiles
Files == {"vercel.json", "tsconfig.json"}
Ids == {"a", "b"}

\* An optional string[] field of a detect rule: absent (undefined) or a list.
\* The code reads these lists only through some()/includes()/length, which
\* depend on membership alone, so a list is modelled by the set of its members.
Absent == [present |-> FALSE, val |-> {}]
OptList(S) == {Absent} \cup {[present |-> TRUE, val |-> v] : v \in SUBSET S}

NoRule == [files |-> Absent, dependencies |-> Absent, exclude_files |-> Absent]
DetectRules == [files : OptList(Files), dependencies : OptList(Deps),
                exclude_files : OptList(Files)]

\* A catalog entry as loadYamlEntry builds it, reduced to the fields the
\* filter and the merge read.  origin names the tree the file was read from.
EntriesOf(origin) ==
    {[id |-> i, origin |-> origin, hasDetect |-> FALSE, detect |-> NoRule] : i \in Ids}
    \cup [id : Ids, origin : {origin}, hasDetect : {TRUE}, detect : DetectRules]

\* What one tree can hold: no entry file, or one.
CollectionsOf(origin) ==
    {<<>>} \cup {<<e>> : e \in EntriesOf(origin)}

Profiles == [configs : SUBSET Files, dependencies : SUBSET Deps]
EmptyProfile == [configs |-> {}, dependencies |-> {}]

(***************************************************************************)
(* catalog.ts: matchesProfile                                              *)
(***************************************************************************)
\* detect.X && detect.X.length > 0
NonEmptyList(opt) == opt.present /\ opt.val # {}

\* list.some((x) => have.includes(x))
SomeIncluded(list, have) == \E x \in list : x \in have

\* Variant: an entry without a detect rule is refused instead of passed.
MatchesProfile_NoRuleFails(entry, profile) ==
    /\ entry.hasDetect
    /\ LET detect == entry.detect
           hasExcluded == /\ NonEmptyList(detect.exclude_files)
                          /\ SomeIncluded(detect.exclude_files.val, profile.configs)
           hasFileRule == NonEmptyList(detect.files)
           hasDepRule == NonEmptyList(detect.dependencies)
           fileMatch == hasFileRule /\ SomeIncluded(detect.files.val, profile.configs)
           depMatch == hasDepRule
                       /\ SomeIncluded(detect.dependencies.val, profile.dependencies)
       IN IF hasExcluded THEN FALSE
          ELSE IF ~hasFileRule /\ ~hasDepRule THEN TRUE
          ELSE fileMatch \/ depMatch

\* Variant: the exclusion is looked at only after the required files and
\* dependencies, so a satisfied requirement passes an excluded entry.
MatchesProfile_ExcludeLast(entry, profile) ==
    IF ~entry.hasDetect THEN TRUE
    ELSE LET detect == entry.detect
             hasExcluded == /\ NonEmptyList(detect.exclude_files)
                            /\ SomeIncluded(detect.exclude_files.val, profile.configs)
             hasFileRule == NonEmptyList(detect.files)
             hasDepRule == NonEmptyList(detect.dependencies)
             fileMatch == hasFileRule /\ SomeIncluded(detect.files.val, profile.configs)
             depMatch == hasDepRule
                         /\ SomeIncluded(detect.dependencies.val, profile.dependencies)
         IN IF fileMatch \/ depMatch THEN TRUE
            ELSE IF hasExcluded THEN FALSE
            ELSE ~hasFileRule /\ ~hasDepRule

\* Variant: AND-mode, every declared family has to be satisfied.
MatchesProfile_AndMode(entry, profile) ==
    IF ~entry.hasDetect THEN TRUE
    ELSE LET detect == entry.detect
             hasExcluded == /\ NonEmptyList(detect.exclude_files)
                            /\ SomeIncluded(detect.exclude_files.val, profile.configs)
             hasFileRule == NonEmptyList(detect.files)
             hasDepRule == NonEmptyList(detect.dependencies)
             fileMatch == hasFileRule /\ SomeIncluded(detect.files.val, profile.configs)
             depMatch == hasDepRule
                         /\ SomeIncluded(detect.dependencies.val, profile.dependencies)
         IN IF hasExcluded THEN FALSE
            ELSE IF ~hasFileRule /\ ~hasDepRule THEN TRUE
            ELSE (hasFileRule => fileMatch) /\ (hasDepRule => depMatch)

\* Variant: a declared but empty list counts as a rule (no length test).
MatchesProfile_EmptyListIsRule(entry, profile) ==
    IF ~entry.hasDetect THEN TRUE
    ELSE LET detect == entry.detect
             hasExcluded == /\ NonEmptyList(detect.exclude_files)
                            /\ SomeIncluded(detect.exclude_files.val, profile.configs)
             hasFileRule == detect.files.present
             hasDepRule == detect.dependencies.present
             fileMatch == hasFileRule /\ SomeIncluded(detect.files.val, profile.configs)
             depMatch == hasDepRule
                         /\ SomeIncluded(detect.dependencies.val, profile.dependencies)
         IN IF hasExcluded THEN FALSE
            ELSE IF ~hasFileRule /\ ~hasDepRule THEN TRUE
            ELSE fileMatch \/ depMatch

MatchesProfile(entry, profile) ==
    IF ~entry.hasDetect THEN TRUE
    ELSE LET detect == entry.detect
             hasExcluded == /\ NonEmptyList(detect.exclude_files)
                            /\ SomeIncluded(detect.exclude_files.val, profile.configs)
             hasFileRule == NonEmptyList(detect.files)
             hasDepRule == NonEmptyList(detect.dependencies)
             fileMatch == hasFileRule /\ SomeIncluded(detect.files.val, profile.configs)
             depMatch == hasDepRule
                         /\ SomeIncluded(detect.dependencies.val, profile.dependencies)
         IN IF hasExcluded THEN FALSE
            ELSE IF ~hasFileRule /\ ~hasDepRule THEN TRUE
            ELSE fileMatch \/ depMatch

(***************************************************************************)
(* catalog.ts: getRelevantEntries.  A JavaScript Map keeps its keys in     *)
(* insertion order and set() on a present key replaces the value in place; *)
(* the Map is modelled by the sequence of its values.                      *)
(***************************************************************************)
MapHas(byId, id) == \E k \in 1..Len(byId) : byId[k].id = id

MapSet(byId, entry) ==
    IF MapHas(byId, entry.id)
    THEN [k \in 1..Len(byId) |-> IF byId[k].id = entry.id THEN entry ELSE byId[k]]
    ELSE Append(byId, entry)

RECURSIVE MapSetAll(_, _)
MapSetAll(byId, entries) ==
    IF entries = <<>> THEN byId
    ELSE MapSetAll(MapSet(byId, Head(entries)), Tail(entries))

\* Variant: the project pass runs first, so a bundled entry wins its id.
MergeById_BundledLast(b, p) == MapSetAll(MapSetAll(<<>>, p), b)

MergeById(b, p) == MapSetAll(MapSetAll(<<>>, b), p)

GetRelevantEntries(b, p, profile) ==
    LET all == MergeById(b, p)
        Keep(entry) == MatchesProfile(entry, profile)
    IN SelectSeq(all, Keep)

(***************************************************************************)
(* detect.ts: what a workspace holds on disk.                              *)
(***************************************************************************)
NumCalls == 2       \* detectProjectContext calls that can overlap
MaxTicks == 2       \* clock advances in one behaviour

CACHE_TTL == 60000

\* The clock advances by half the time to live, so that a pair's age is
\* under the limit after one advance and exactly at it after two.
Deltas == {CACHE_TTL \div 2}

CONFIG_FILES ==
    <<"tsconfig.json", "pyproject.toml", "Cargo.toml", "go.mod", ".eslintrc",
      ".eslintrc.js", ".eslintrc.json", "eslint.config.js", "eslint.config.mjs",
      ".prettierrc", "prettier.config.js", "tailwind.config.ts",
      "tailwind.config.js", "postcss.config.js", "postcss.config.mjs",
      "next.config.js", "next.config.mjs", "next.config.ts", "vite.config.ts",
      "vite.config.js", "nuxt.config.ts", "svelte.config.js", "angular.json",
      "vercel.json", ".vercel", "netlify.toml", "fly.toml", "Dockerfile",
      "docker-compose.yml", "docker-compose.yaml", ".github", ".gitlab-ci.yml",
      "prisma", "drizzle.config.ts">>

lockFiles ==
    <<<<"bun.lockb", "bun">>, <<"bun.lock", "bun">>, <<"pnpm-lock.yaml", "pnpm">>,
      <<"yarn.lock", "yarn">>, <<"package-lock.json", "npm">>>>

\* One name of the workspace's root directory, as readdir(withFileTypes)
\* reports it.  hidden: the name starts with a dot.  ext: path.extname of a
\* file's name.  readable, subExts: whether readdir of a directory succeeds,
\* and the extensions of the first 50 names it lists.
FileIndexTs == [name |-> "index.ts", hidden |-> FALSE, kind |-> "file",
                ext |-> ".ts", readable |-> TRUE, subExts |-> {}]
FileReadme == [name |-> "README", hidden |-> FALSE, kind |-> "file",
               ext |-> "", readable |-> TRUE, subExts |-> {}]
DirSrc(readable) == [name |-> "src", hidden |-> FALSE, kind |-> "dir",
                     ext |-> "", readable |-> readable, subExts |-> {".py"}]
DirNodeModules == [name |-> "node_modules", hidden |-> FALSE, kind |-> "dir",
                   ext |-> "", readable |-> TRUE, subExts |-> {".js"}]
DirGithub == [name |-> ".github", hidden |-> TRUE, kind |-> "dir",
              ext |-> "", readable |-> TRUE, subExts |-> {".yml"}]

RootListings ==
    {files \cup src \cup skipped :
        files \in {{}, {FileIndexTs, FileReadme}},
        src \in {{}, {DirSrc(TRUE)}, {DirSrc(FALSE)}},
        skipped \in {{}, {DirNodeModules, DirGithub}}}

\* manifest: package.json is missing, is not JSON, or parses.  present: the
\* names fs.access finds in the workspace.  root: the root directory listing.
\* The first is a workspace that is missing or unreadable: every fs call
\* under it fails.
DiskStates ==
    {[exists |-> FALSE, manifest |-> "missing", dependencies |-> {},
      devDependencies |-> {}, present |-> {}, root |-> {}]}
    \cup [exists : {TRUE}, manifest : {"missing", "unparsable"},
          dependencies : {{}}, devDependencies : {{}},
          present : SUBSET {"tsconfig.json", "yarn.lock", "package-lock.json"},
          root : RootListings]
    \cup [exists : {TRUE}, manifest : {"ok"},
          dependencies : {{}, {"next", "react"}}, devDependencies : {{}, {"vue"}},
          present : SUBSET {"tsconfig.json", "yarn.lock", "package-lock.json"},
          root : RootListings]

\* The two workspaces of the overlapping-calls specification: a Next.js
\* project in TypeScript, and an empty directory.
NextJsWorkspace ==
    [exists |-> TRUE, manifest |-> "ok", dependencies |-> {"next", "react"},
     devDependencies |-> {}, present |-> {"tsconfig.json", "yarn.lock"},
     root |-> {FileIndexTs, DirNodeModules}]
EmptyWorkspace ==
    [exists |-> TRUE, manifest |-> "missing", dependencies |-> {},
     devDependencies |-> {}, present |-> {}, root |-> {}]

(***************************************************************************)
(* detect.ts: the four probes.  A probe's outcome is a value, or threw;    *)
(* each probe catches every failure of the fs calls it makes.              *)
(***************************************************************************)
Returned(v) == [threw |-> FALSE, val |-> v]
Threw(v) == [threw |-> TRUE, val |-> v]

NullPackageJson == [isNull |-> TRUE, allDeps |-> {}]

\* Variant: no try/catch around the read and the parse.
readPackageJson_NoCatch(d) ==
    IF ~d.exists \/ d.manifest # "ok"
    THEN Threw(NullPackageJson)
    ELSE Returned([isNull |-> FALSE, allDeps |-> d.dependencies \cup d.devDependencies])

\* allDeps is read through includes() only and is modelled by its set; the
\* scripts the function also collects are read by nobody.
readPackageJson(d) ==
    IF ~d.exists \/ d.manifest # "ok"
    THEN Returned(NullPackageJson)
    ELSE Returned([isNull |-> FALSE, allDeps |-> d.dependencies \cup d.devDependencies])

Accessible(d, file) == d.exists /\ file \in d.present

ConfigFileSet == {CONFIG_FILES[i] : i \in 1..Len(CONFIG_FILES)}

\* CONFIG_FILES.map(access) and the filter of the names found.
detectConfigFiles(d) ==
    Returned({file \in ConfigFileSet : Accessible(d, file)})

EntryTypes(entry) ==
    IF entry.hidden \/ entry.name = "node_modules" \/ entry.name = "dist" THEN {}
    ELSE IF entry.kind = "file" THEN (IF entry.ext # "" THEN {entry.ext} ELSE {})
    ELSE IF entry.kind = "dir" THEN (IF entry.readable THEN entry.subExts ELSE {})
    ELSE {}

detectFileTypes(d) ==
    IF ~d.exists THEN Returned({})
    ELSE Returned(UNION {EntryTypes(entry) : entry \in d.root})

RECURSIVE FirstLockFile(_, _)
FirstLockFile(d, k) ==
    IF k > Len(lockFiles) THEN "null"
    ELSE IF Accessible(d, lockFiles[k][1]) THEN lockFiles[k][2]
    ELSE FirstLockFile(d, k + 1)

detectPackageManager(d) == Returned(FirstLockFile(d, 1))

\* Variant: no sentinel, the list is returned as it is.
detectLanguages_NoSentinel(configs, fileTypes) ==
    (IF "tsconfig.json" \in configs \/ ".ts" \in fileTypes \/ ".tsx" \in fileTypes
     THEN <<"TypeScript">> ELSE <<>>)
    \o (IF ".js" \in fileTypes \/ ".jsx" \in fileTypes
        THEN <<"JavaScript">> ELSE <<>>)
    \o (IF "pyproject.toml" \in configs \/ ".py" \in fileTypes
        THEN <<"Python">> ELSE <<>>)
    \o (IF "Cargo.toml" \in configs \/ ".rs" \in fileTypes
        THEN <<"Rust">> ELSE <<>>)
    \o (IF "go.mod" \in configs \/ ".go" \in fileTypes
        THEN <<"Go">> ELSE <<>>)

detectLanguages(configs, fileTypes) ==
    LET langs ==
            (IF "tsconfig.json" \in configs \/ ".ts" \in fileTypes \/ ".tsx" \in fileTypes
             THEN <<"TypeScript">> ELSE <<>>)
            \o (IF ".js" \in fileTypes \/ ".jsx" \in fileTypes
                THEN <<"JavaScript">> ELSE <<>>)
            \o (IF "pyproject.toml" \in configs \/ ".py" \in fileTypes
                THEN <<"Python">> ELSE <<>>)
            \o (IF "Cargo.toml" \in configs \/ ".rs" \in fileTypes
                THEN <<"Rust">> ELSE <<>>)
            \o (IF "go.mod" \in configs \/ ".go" \in fileTypes
                THEN <<"Go">> ELSE <<>>)
    IN IF Len(langs) > 0 THEN langs ELSE <<"Unknown">>

\* Variant: the libraries are tested before the frameworks built on them.
detectFramework_LibraryFirst(pkg) ==
    IF pkg.isNull THEN "null"
    ELSE LET deps == pkg.allDeps
         IN IF "react" \in deps THEN "React"
            ELSE IF "vue" \in deps THEN "Vue"
            ELSE IF "svelte" \in deps THEN "Svelte"
            ELSE IF "next" \in deps THEN "Next.js"
            ELSE IF "nuxt" \in deps THEN "Nuxt"
            ELSE IF "@sveltejs/kit" \in deps THEN "SvelteKit"
            ELSE IF "@angular/core" \in deps THEN "Angular"
            ELSE IF "express" \in deps THEN "Express"
            ELSE IF "fastify" \in deps THEN "Fastify"
            ELSE IF "hono" \in deps THEN "Hono"
            ELSE "null"

detectFramework(pkg) ==
    IF pkg.isNull THEN "null"
    ELSE LET deps == pkg.allDeps
         IN IF "next" \in deps THEN "Next.js"
            ELSE IF "nuxt" \in deps THEN "Nuxt"
            ELSE IF "@sveltejs/kit" \in deps THEN "SvelteKit"
            ELSE IF "svelte" \in deps THEN "Svelte"
            ELSE IF "@angular/core" \in deps THEN "Angular"
            ELSE IF "vue" \in deps THEN "Vue"
            ELSE IF "react" \in deps THEN "React"
            ELSE IF "express" \in deps THEN "Express"
            ELSE IF "fastify" \in deps THEN "Fastify"
            ELSE IF "hono" \in deps THEN "Hono"
            ELSE "null"

(***************************************************************************)
(* detect.ts: detectProjectContext and clearDetectCache.                   *)
(***************************************************************************)
AllProbes ==
    {"readPackageJson", "detectConfigFiles", "detectFileTypes", "detectPackageManager"}

\* builtFrom is history: the probes that had completed when the profile was
\* put together.
NoProfile ==
    [language |-> <<>>, framework |-> "null", dependencies |-> {}, configs |-> {},
     packageManager |-> "null", fileTypes |-> {}, builtFrom |-> {}]

\* by is history: the call that stored the pair.
NoCache == [present |-> FALSE, profile |-> NoProfile, timestamp |-> 0, by |-> 0]

IdleCall ==
    [pc |-> "idle", ws |-> "none", started |-> {}, done |-> {},
     packageJson |-> NullPackageJson, configFiles |-> {}, fileTypes |-> {},
     packageManager |-> "null", ret |-> NoProfile]

CallIds == DOMAIN calls

\* Variant: the age is compared with the time to live taken in seconds.
CacheFresh_Seconds(w) ==
    cachedProfile.present /\ now - cachedProfile.timestamp < CACHE_TTL \div 1000

\* Variant: the pair is used only for the workspace it was probed from.
CacheFresh_PerWorkspace(w) ==
    /\ cachedProfile.present /\ now - cachedProfile.timestamp < CACHE_TTL
    /\ calls[cachedProfile.by].ws = w

\* cachedProfile && Date.now() - cachedProfile.timestamp < CACHE_TTL, for a
\* call on workspace w (which the test does not read).
CacheFresh(w) ==
    cachedProfile.present /\ now - cachedProfile.timestamp < CACHE_TTL

\* Variant: a hit renews the pair's timestamp.
CacheAfterHit_Renewed == [cachedProfile EXCEPT !.timestamp = now]

\* A hit returns and leaves the pair as it is.
CacheAfterHit == cachedProfile

\* Variant: the continuation runs once any probe has completed.
AllSettled_Any(call) == call.done # {}

\* await Promise.all([...]): the continuation runs when all four have resolved.
AllSettled(call) == call.done = AllProbes

ProbeOutcome(p, d) ==
    CASE p = "readPackageJson" -> readPackageJson(d)
      [] p = "detectConfigFiles" -> detectConfigFiles(d)
      [] p = "detectFileTypes" -> detectFileTypes(d)
      [] p = "detectPackageManager" -> detectPackageManager(d)

BuildProfile(call) ==
    [language |-> detectLanguages(call.configFiles, call.fileTypes),
     framework |-> detectFramework(call.packageJson),
     dependencies |-> IF call.packageJson.isNull THEN {} ELSE call.packageJson.allDeps,
     configs |-> call.configFiles,
     packageManager |-> call.packageManager,
     fileTypes |-> call.fileTypes,
     builtFrom |-> call.done]

\* A call of detectProjectContext(w) runs up to its first await: the cache
\* test, then either the return of the cached profile or the start of the four
\* probes.  Calls are numbered in the order they start.
StartDetect(c, w) ==
    /\ calls[c].pc = "idle"
    /\ \A b \in CallIds : b < c => calls[b].pc # "idle"
    /\ IF CacheFresh(w)
       THEN /\ calls' = [calls EXCEPT ![c] = [IdleCall EXCEPT !.pc = "returned", !.ws = w,
                                                  !.ret = cachedProfile.profile]]
            /\ cachedProfile' = CacheAfterHit
       ELSE /\ calls' = [calls EXCEPT ![c] = [IdleCall EXCEPT !.pc = "probing", !.ws = w,
                                                  !.started = AllProbes]]
            /\ UNCHANGED cachedProfile
    /\ resetPending' = FALSE
    /\ UNCHANGED <<disk, now, ticks>>
    /\ UNCHANGED outsideDetect

\* One of the call's probes completes; a probe that throws rejects the call.
SettleProbe(c, p) ==
    /\ calls[c].pc = "probing"
    /\ p \in calls[c].started \ calls[c].done
    /\ LET outcome == ProbeOutcome(p, disk[calls[c].ws])
           call == [calls[c] EXCEPT !.done = @ \cup {p}]
       IN calls' = [calls EXCEPT ![c] =
            IF outcome.threw THEN [call EXCEPT !.pc = "threw"]
            ELSE CASE p = "readPackageJson" -> [call EXCEPT !.packageJson = outcome.val]
                   [] p = "detectConfigFiles" -> [call EXCEPT !.configFiles = outcome.val]
                   [] p = "detectFileTypes" -> [call EXCEPT !.fileTypes = outcome.val]
                   [] p = "detectPackageManager" ->
                        [call EXCEPT !.packageManager = outcome.val]]
    /\ UNCHANGED <<disk, cachedProfile, now, ticks, resetPending>>
    /\ UNCHANGED outsideDetect

\* The continuation after the await: derive, store the pair, return.
FinishDetect(c) ==
    /\ calls[c].pc = "probing"
    /\ AllSettled(calls[c])
    /\ LET profile == BuildProfile(calls[c])
       IN /\ cachedProfile' = [present |-> TRUE, profile |-> profile,
                                timestamp |-> now, by |-> c]
          /\ calls' = [calls EXCEPT ![c].pc = "returned", ![c].ret = profile]
    /\ UNCHANGED <<disk, now, ticks, resetPending>>
    /\ UNCHANGED outsideDetect

ClearDetectCache ==
    /\ cachedProfile' = NoCache
    /\ resetPending' = TRUE
    /\ UNCHANGED <<disk, now, ticks, calls>>
    /\ UNCHANGED outsideDetect

Tick(delta) ==
    /\ ticks < MaxTicks
    /\ now' = now + delta
    /\ ticks' = ticks + 1
    /\ UNCHANGED <<disk, cachedProfile, calls, resetPending>>
    /\ UNCHANGED outsideDetect

NextDetect ==
    \/ \E c \in CallIds, w \in DOMAIN disk : StartDetect(c, w)
    \/ \E c \in CallIds, p \in AllProbes : SettleProbe(c, p)
    \/ \E c \in CallIds : FinishDetect(c)
    \/ ClearDetectCache
    \/ \E delta \in Deltas : Tick(delta)

CatalogAtRest ==
    /\ bundled = <<>> /\ project = <<>>
    /\ catProfile = EmptyProfile /\ relevant = <<>> /\ catPc = "idle"

DetectAtRest ==
    /\ disk = <<>> /\ calls = <<>>
    /\ cachedProfile = NoCache /\ now = 0 /\ ticks = 0 /\ resetPending = FALSE

\* Overlapping calls on two workspaces.
InitDetect ==
    /\ CatalogAtRest /\ ResolveAtRest /\ MatcherAtRest /\ ServerAtRest
    /\ disk = [w \in {"W1", "W2"} |->
                IF w = "W1" THEN NextJsWorkspace ELSE EmptyWorkspace]
    /\ calls = [c \in 1..NumCalls |-> IdleCall]
    /\ cachedProfile = NoCache
    /\ now = 0 /\ ticks = 0
    /\ resetPending = FALSE

SpecDetect == InitDetect /\ [][NextDetect]_vars

\* One call on one workspace, which holds anything.
InitProbe ==
    /\ CatalogAtRest /\ ResolveAtRest /\ MatcherAtRest /\ ServerAtRest
    /\ \E d \in DiskStates : disk = [w \in {"W1"} |-> d]
    /\ calls = [c \in {1} |-> IdleCall]
    /\ cachedProfile = NoCache
    /\ now = 0 /\ ticks = 0
    /\ resetPending = FALSE

SpecProbe == InitProbe /\ [][NextDetect]_vars

\* Workspaces for the derivation of languages and framework.  Either no
\* manifest, at most one language config or all four, and up to two source
\* files in the root; or nothing but a manifest (missing, unparsable, or
\* with at most one package in each of dependencies and devDependencies).
StackDisks ==
    LET exts == {".ts", ".tsx", ".js", ".jsx", ".py", ".rs", ".go", ".md"}
        languageConfigs == {"tsconfig.json", "pyproject.toml", "Cargo.toml", "go.mod"}
        packages == {"next", "nuxt", "@sveltejs/kit", "svelte", "@angular/core",
                     "vue", "react", "express", "fastify", "hono", "lodash"}
        SourceFile(e) == [name |-> "main" \o e, hidden |-> FALSE, kind |-> "file",
                          ext |-> e, readable |-> TRUE, subExts |-> {}]
        AtMostOne(S) == {{}} \cup {{x} : x \in S}
    IN [exists : {TRUE}, manifest : {"missing"},
        dependencies : {{}}, devDependencies : {{}},
        present : AtMostOne(languageConfigs) \cup {languageConfigs},
        root : {{SourceFile(e), SourceFile(f)} : e, f \in exts} \cup {{}}]
       \cup [exists : {TRUE}, manifest : {"ok"},
             dependencies : AtMostOne(packages),
             devDependencies : AtMostOne(packages),
             present : {{}}, root : {{}}]
       \cup [exists : {TRUE}, manifest : {"unparsable"},
             dependencies : {{}}, devDependencies : {{}},
             present : {{}}, root : {{}}]

\* One workspace, which detectProjectContext is called on once.
InitStack ==
    /\ CatalogAtRest /\ ResolveAtRest /\ MatcherAtRest /\ ServerAtRest
    /\ \E d \in StackDisks : disk = [w \in {"W1"} |-> d]
    /\ calls = [c \in {1} |-> IdleCall]
    /\ cachedProfile = NoCache
    /\ now = 0 /\ ticks = 0
    /\ resetPending = FALSE

SpecStack == InitStack /\ [][NextDetect]_vars

(***************************************************************************)
(* Specification of the catalog: the two trees hold any entries, and one   *)
(* call of getRelevantEntries filters them against any profile.            *)
(***************************************************************************)
InitCatalog ==
    /\ DetectAtRest /\ ResolveAtRest /\ MatcherAtRest /\ ServerAtRest
    /\ bundled \in CollectionsOf("bundled")
    /\ project \in CollectionsOf("project")
    /\ catProfile = EmptyProfile
    /\ relevant = <<>>
    /\ catPc = "idle"

CallGetRelevantEntries ==
    /\ catPc = "idle"
    /\ \E profile \in Profiles :
        /\ catProfile' = profile
        /\ relevant' = GetRelevantEntries(bundled, project, profile)
    /\ catPc' = "done"
    /\ UNCHANGED <<bundled, project>>
    /\ UNCHANGED outsideCatalog

NextCatalog == CallGetRelevantEntries

SpecCatalog == InitCatalog /\ [][NextCatalog]_vars

(***************************************************************************)
(* Properties of the catalog.                                              *)
(***************************************************************************)
Range(seq) == {seq[k] : k \in 1..Len(seq)}

\* The entries that survive the merge, said without the Map: the last entry
\* of the project tree for each id, and the last entry of the bundled tree
\* for each id the project tree does not hold.
LastOfId(seq, k) == \A j \in (k + 1)..Len(seq) : seq[j].id # seq[k].id
Effective ==
    {project[k] : k \in {i \in 1..Len(project) : LastOfId(project, i)}}
    \cup {bundled[k] : k \in {i \in 1..Len(bundled) :
                /\ LastOfId(bundled, i)
                /\ \A j \in 1..Len(project) : project[j].id # bundled[i].id}}

ExclusionHit(e, profile) == e.detect.exclude_files.val \cap profile.configs # {}
FileHit(e, profile) == e.detect.files.val \cap profile.configs # {}
DepHit(e, profile) == e.detect.dependencies.val \cap profile.dependencies # {}
DeclaresNeither(e) == e.detect.files.val = {} /\ e.detect.dependencies.val = {}

\* C1: every entry without a detect rule passes the filter against every
\* profile and is in the list getRelevantEntries returns.
C1_UniversalAlwaysPasses ==
    catPc = "done" =>
        \A e \in Effective : ~e.hasDetect => e \in Range(relevant)

C1_Witness ==
    /\ catPc = "done"
    /\ catProfile.configs # {} /\ catProfile.dependencies # {}
    /\ \E e \in Effective : ~e.hasDetect /\ e \in Range(relevant)

\* C2: an entry one of whose exclude_files is among the profile's configs
\* fails the filter, also when a required file or dependency is present.
C2_ExclusionAlwaysFails ==
    catPc = "done" =>
        \A e \in Effective :
            (e.hasDetect /\ ExclusionHit(e, catProfile)) => e \notin Range(relevant)

C2_Witness ==
    /\ catPc = "done"
    /\ \E e \in Effective :
        /\ e.hasDetect /\ ExclusionHit(e, catProfile)
        /\ FileHit(e, catProfile) /\ DepHit(e, catProfile)
        /\ e \notin Range(relevant)

\* C3: with a detect rule and no exclusion hit, the entry passes exactly when
\* the rule declares neither family, or a required file is present, or a
\* required dependency is present; one satisfied family is enough.
C3_EitherFamilySuffices ==
    catPc = "done" =>
        \A e \in Effective :
            (e.hasDetect /\ ~ExclusionHit(e, catProfile)) =>
                (e \in Range(relevant) <=>
                    \/ DeclaresNeither(e)
                    \/ FileHit(e, catProfile)
                    \/ DepHit(e, catProfile))

C3_Witness ==
    /\ catPc = "done"
    /\ \E e \in Effective :
        /\ e.hasDetect /\ ~ExclusionHit(e, catProfile)
        /\ e.detect.files.val # {} /\ ~FileHit(e, catProfile)
        /\ DepHit(e, catProfile)
        /\ e \in Range(relevant)

\* C4 as stated: for the profile of an empty workspace only entries without
\* a detect rule are returned.
C4_EmptyProfileOnlyUniversal ==
    (catPc = "done" /\ catProfile = EmptyProfile) =>
        \A k \in 1..Len(relevant) : ~relevant[k].hasDetect

\* C4 amended: for the profile of an empty workspace the entries returned are
\* those without a detect rule and those whose rule declares neither a
\* required file nor a required dependency; an entry whose rule declares a
\* required file or dependency is excluded.
C4_EmptyProfileNoRequirement ==
    (catPc = "done" /\ catProfile = EmptyProfile) =>
        \A e \in Effective :
            e \in Range(relevant) <=> (~e.hasDetect \/ DeclaresNeither(e))

C4_Witness ==
    /\ catPc = "done" /\ catProfile = EmptyProfile
    /\ \E e \in Effective :
        /\ e.hasDetect /\ ~DeclaresNeither(e) /\ e \notin Range(relevant)
    /\ \E e \in Effective :
        /\ e.hasDetect /\ e.detect.files.present /\ DeclaresNeither(e)
        /\ e \in Range(relevant)

\* C5: the returned list holds at most one entry per id, and for an id held
\* by both trees only the project entry is filtered and can be returned.
C5_ProjectShadowsBundled ==
    catPc = "done" =>
        /\ \A j, k \in 1..Len(relevant) : relevant[j].id = relevant[k].id => j = k
        /\ \A b \in Range(bundled) :
            (\E p \in Range(project) : p.id = b.id) =>
                /\ b \notin Range(relevant)
                /\ \A p \in Effective : p.id = b.id =>
                    (p \in Range(relevant) <=> MatchesProfile(p, catProfile))

C5_Witness ==
    /\ catPc = "done"
    /\ \E b \in Range(bundled), p \in Range(project) :
        /\ p.id = b.id
        /\ MatchesProfile(b, catProfile) /\ ~MatchesProfile(p, catProfile)
        /\ relevant = <<>>

(***************************************************************************)
(* Properties of the profile cache and of the probes.                      *)
(***************************************************************************)
\* The step in which call c runs from its start to its first await.
Starts(c) == calls[c].pc = "idle" /\ calls'[c].pc # "idle"

\* Call c came back at once with value v and invoked no probe.
ReturnsUnprobed(c, v) ==
    /\ calls'[c].pc = "returned" /\ calls'[c].ret = v
    /\ calls'[c].started = {} /\ calls'[c].done = {}

PairAge == now - cachedProfile.timestamp

\* C6: a call for the workspace of the call that stored the cached pair,
\* started less than 60 s after that store, returns the profile the storing
\* call returned and runs none of the four probes.
C6_SecondCallWithinTtlHits ==
    [][\A c \in CallIds :
        (/\ Starts(c)
         /\ cachedProfile.present
         /\ calls[cachedProfile.by].ws = calls'[c].ws
         /\ PairAge < 60000)
        => ReturnsUnprobed(c, calls[cachedProfile.by].ret)]_vars

C6_Witness ==
    /\ Len(calls) >= 2
    /\ calls[1].pc = "returned" /\ calls[1].done = AllProbes
    /\ calls[2].pc = "returned" /\ calls[2].done = {} /\ calls[2].started = {}
    /\ calls[2].ws = calls[1].ws
    /\ calls[2].ret = calls[1].ret
    /\ cachedProfile.present /\ cachedProfile.by = 1
    /\ PairAge = 30000

\* What C7 says of every step, but for the reset: a starting call returns
\* the cached profile exactly when a pair exists and is under 60 s old, and
\* otherwise starts the four probes; a call that probed stores its profile
\* with the time of the store when it returns; a hit leaves the pair as it
\* is; a pair is removed by no detect call and by no passage of time, and
\* is replaced only by the store of a returning call.
C7_ExpiryStep ==
    /\ \A c \in CallIds : Starts(c) =>
        IF cachedProfile.present /\ PairAge < 60000
        THEN ReturnsUnprobed(c, cachedProfile.profile) /\ cachedProfile' = cachedProfile
        ELSE /\ calls'[c].pc = "probing" /\ calls'[c].started = AllProbes
             /\ cachedProfile' = cachedProfile
    /\ \A c \in CallIds :
        (calls[c].pc = "probing" /\ calls'[c].pc = "returned") =>
            cachedProfile' = [present |-> TRUE, profile |-> calls'[c].ret,
                              timestamp |-> now, by |-> c]
    /\ (cachedProfile.present /\ ~cachedProfile'.present) =>
            (resetPending' /\ now' = now /\ calls' = calls)
    /\ (cachedProfile.present /\ cachedProfile'.present
            /\ cachedProfile' # cachedProfile) =>
            \E c \in CallIds : calls[c].pc = "probing" /\ calls'[c].pc = "returned"

\* C7 as stated: the above, and the first detect call to start after
\* clearDetectCache always re-probes.
C7_NextCallAfterResetProbes ==
    [][/\ C7_ExpiryStep
       /\ \A c \in CallIds :
            (Starts(c) /\ resetPending) => calls'[c].pc = "probing"]_vars

\* C7 amended: the above, and a detect call that starts after
\* clearDetectCache while no pair is stored re-probes; the pair such a call
\* can find was stored, after the reset, by a call that had started before it.
C7_CallAfterResetProbesWhileEmpty ==
    [][/\ C7_ExpiryStep
       /\ \A c \in CallIds :
            (Starts(c) /\ resetPending) =>
                IF cachedProfile.present
                THEN /\ calls[cachedProfile.by].pc = "returned"
                     /\ calls[cachedProfile.by].done = AllProbes
                ELSE calls'[c].pc = "probing"]_vars

C7_Witness ==
    /\ Len(calls) >= 2
    /\ calls[1].pc = "returned" /\ calls[1].done = AllProbes
    /\ calls[2].pc = "probing" /\ calls[2].ws = calls[1].ws
    /\ \A c \in CallIds : c > 2 => calls[c].pc = "idle"
    /\ ~cachedProfile.present /\ ~resetPending
    /\ now = 0

\* C8: the cache is one pair for all workspaces: a call for a workspace
\* other than the one the pair was probed from, started while the pair is
\* under 60 s old, returns that other workspace's profile, probes nothing
\* and leaves the pair in the cache.
C8_CacheNotKeyedByWorkspace ==
    [][\A c \in CallIds :
        (/\ Starts(c)
         /\ cachedProfile.present
         /\ calls[cachedProfile.by].ws # calls'[c].ws
         /\ PairAge < 60000)
        => /\ ReturnsUnprobed(c, calls[cachedProfile.by].ret)
           /\ cachedProfile' = cachedProfile]_vars

C8_Witness ==
    /\ Len(calls) >= 2
    /\ calls[1].pc = "returned" /\ calls[1].done = AllProbes /\ calls[1].ws = "W1"
    /\ calls[2].pc = "returned" /\ calls[2].done = {} /\ calls[2].ws = "W2"
    /\ calls[2].ret = calls[1].ret
    /\ calls[2].ret.framework = "Next.js" /\ disk["W2"] = EmptyWorkspace
    /\ cachedProfile.present /\ cachedProfile.by = 1
    /\ cachedProfile.profile = calls[1].ret

\* C9: the pair in the cache and every returned profile were built from
\* four completed probes, however the probes of overlapping calls interleave.
C9_NoPartialProfile ==
    /\ cachedProfile.present => cachedProfile.profile.builtFrom = AllProbes
    /\ \A c \in CallIds :
        calls[c].pc = "returned" => calls[c].ret.builtFrom = AllProbes

C9_Witness ==
    /\ Len(calls) >= 2
    /\ calls[1].pc = "probing" /\ calls[1].done = {"detectPackageManager"}
    /\ calls[2].pc = "returned" /\ calls[2].done = AllProbes
    /\ cachedProfile.present /\ cachedProfile.by = 2
    /\ cachedProfile.profile.builtFrom = AllProbes

\* C10: no call of detect throws; whatever the workspace holds, each failing
\* probe yields its absent value and the call returns a complete profile.
C10_DetectNeverThrows ==
    \A c \in CallIds :
        /\ calls[c].pc # "threw"
        /\ calls[c].pc = "returned" =>
            LET d == disk[calls[c].ws]
                ret == calls[c].ret
            IN /\ ret.builtFrom = AllProbes
               /\ Len(ret.language) > 0
               /\ (~d.exists \/ d.manifest # "ok") =>
                    (ret.dependencies = {} /\ ret.framework = "null")
               /\ ~d.exists =>
                    /\ ret.configs = {} /\ ret.fileTypes = {}
                    /\ ret.packageManager = "null"
                    /\ ret.language = <<"Unknown">>
               /\ DirSrc(FALSE) \in d.root => ".py" \notin ret.fileTypes
               /\ (d.present \cap {lockFiles[k][1] : k \in 1..Len(lockFiles)} = {}) =>
                    ret.packageManager = "null"

C10_Witness ==
    \E c \in CallIds :
        /\ calls[c].pc = "returned"
        /\ disk[calls[c].ws].manifest = "unparsable"
        /\ DirSrc(FALSE) \in disk[calls[c].ws].root
        /\ "yarn.lock" \notin disk[calls[c].ws].present
        /\ "package-lock.json" \notin disk[calls[c].ws].present
        /\ calls[c].ret.fileTypes = {".ts"}
        /\ calls[c].ret.dependencies = {}

C10_WitnessMissingWorkspace ==
    \E c \in CallIds :
        /\ calls[c].pc = "returned"
        /\ ~disk[calls[c].ws].exists
        /\ calls[c].ret.language = <<"Unknown">>

(***************************************************************************)
(* catalog.ts: resolution of one entry's instructions, getEntryById ->     *)
(* resolveSource -> fetchFromSource, with the disk cache of fetched        *)
(* content.  A text is the sequence of its tokens: a locator's prefix, its *)
(* "/" separators and its ".md" suffix are tokens of their own, and so are *)
(* the "---" marker and the white space of a fetched body.                 *)
(***************************************************************************)
NumRes == 2             \* resolutions of the id in one behaviour
MaxClockTicks == 2      \* times the clock advances in one behaviour

SKILL_CACHE_TTL == 24 * 60 * 60 * 1000      \* CACHE_TTL of catalog.ts

NoText == [present |-> FALSE, val |-> <<>>]
SomeText(t) == [present |-> TRUE, val |-> t]

\* String.prototype.split("/") on a token sequence: the parts between the
\* separators, empty parts included.
RECURSIVE SplitSlash(_)
SplitSlash(t) ==
    IF \A i \in 1..Len(t) : t[i] # "/"
    THEN <<t>>
    ELSE LET k == CHOOSE i \in 1..Len(t) :
                    t[i] = "/" /\ \A j \in 1..(i - 1) : t[j] # "/"
         IN <<SubSeq(t, 1, k - 1)>> \o SplitSlash(SubSeq(t, k + 1, Len(t)))

\* Array.prototype.join("/")
RECURSIVE JoinSlash(_)
JoinSlash(parts) ==
    IF Len(parts) = 0 THEN <<>>
    ELSE IF Len(parts) = 1 THEN parts[1]
    ELSE parts[1] \o <<"/">> \o JoinSlash(Tail(parts))

EndsWithMd(t) == Len(t) > 0 /\ t[Len(t)] = ".md"

\* Variant: the github shorthand is accepted without a repository.
resolveSourceUrl_OwnerOnly(source) ==
    IF Len(source) > 0 /\ Head(source) = "github:"
    THEN LET parts == SplitSlash(Tail(source))
             skillPath == JoinSlash(SubSeq(parts, 3, Len(parts)))
             filePath == IF EndsWithMd(skillPath) THEN skillPath
                         ELSE skillPath \o <<"/", "SKILL", ".md">>
         IN SomeText(<<"https://", "raw.githubusercontent.com", "/">>
                        \o JoinSlash(SubSeq(parts, 1, 2))
                        \o <<"/", "main", "/">> \o filePath)
    ELSE IF Len(source) > 0 /\ Head(source) \in {"http://", "https://"}
    THEN SomeText(source)
    ELSE NoText

resolveSourceUrl(source) ==
    IF Len(source) > 0 /\ Head(source) = "github:"
    THEN LET parts == SplitSlash(Tail(source))
             skillPath == JoinSlash(SubSeq(parts, 3, Len(parts)))
             filePath == IF EndsWithMd(skillPath) THEN skillPath
                         ELSE skillPath \o <<"/", "SKILL", ".md">>
         IN IF Len(parts) < 2 THEN NoText
            ELSE SomeText(<<"https://", "raw.githubusercontent.com", "/">>
                            \o parts[1] \o <<"/">> \o parts[2]
                            \o <<"/", "main", "/">> \o filePath)
    ELSE IF Len(source) > 0 /\ Head(source) \in {"http://", "https://"}
    THEN SomeText(source)
    ELSE NoText

WhiteSpace == {" ", "\n"}

\* String.prototype.trim
RECURSIVE Trim(_)
Trim(t) ==
    IF Len(t) = 0 THEN t
    ELSE IF Head(t) \in WhiteSpace THEN Trim(Tail(t))
    ELSE IF t[Len(t)] \in WhiteSpace THEN Trim(SubSeq(t, 1, Len(t) - 1))
    ELSE t

\* Variant: the content is cached and returned as fetched, metadata included.
parseSkillMd_Raw(content) == content

parseSkillMd(content) ==
    LET trimmed == Trim(content)
        ends == {i \in 2..Len(trimmed) : trimmed[i] = "---"}
    IN IF Len(trimmed) > 0 /\ Head(trimmed) = "---" /\ ends # {}
       THEN LET endIndex == CHOOSE i \in ends : \A j \in ends : i <= j
            IN Trim(SubSeq(trimmed, endIndex + 1, Len(trimmed)))
       ELSE trimmed

\* Locators an entry's source field may hold.
Source ==
    [githubDir |-> <<"github:", "acme", "/", "skills", "/", "lint">>,
     githubFile |->
        <<"github:", "acme", "/", "skills", "/", "docs", "/", "lint", ".md">>,
     githubRepo |-> <<"github:", "acme", "/", "skills">>,
     githubOwnerOnly |-> <<"github:", "acme">>,
     githubNoRepo |-> <<"github:", "acme", "/">>,
     httpsUrl |-> <<"https://", "example.com", "/", "lint", ".md">>,
     httpUrl |-> <<"http://", "example.com", "/", "lint">>,
     ftpUrl |-> <<"ftp://", "example.com", "/", "lint", ".md">>]

\* Bodies the remote may answer with.
Body ==
    [plain |-> <<"Use", " ", "eslint", "\n">>,
     frontMatter |->
        <<"---", "name: lint", "---", "\n", "Run", " ", "eslint", " ", "--fix">>,
     onlyMeta |-> <<"---", "name: lint", "---", "\n">>]

\* What a fetch comes to: fetch() rejects, the response is not ok, or the
\* response is ok and text() gives a body.
FetchOutcomes ==
    {[kind |-> k, body |-> <<>>] : k \in {"error", "notok"}}
        \cup {[kind |-> "ok", body |-> Body[k]] : k \in DOMAIN Body}

\* Texts of the entry and of the cache file an earlier run left.
Content ==
    [description |-> <<"Lint", " ", "the", " ", "code">>,
     inline |-> <<"Run", " ", "the", " ", "linter">>,
     old |-> <<"Run", " ", "jshint">>]

\* The entries loadYamlEntry may yield for the id: with or without a source,
\* instructions inline, empty, or defaulted to the description.
ResolvableEntries ==
    {[id |-> "lint", description |-> Content.description, instructions |-> i,
      source |-> src] :
        i \in {Content.description, Content.inline, <<>>},
        src \in {NoText} \cup {SomeText(Source[k]) : k \in DOMAIN Source}}

\* The cache file: writer is history, the resolution that opened it for
\* writing last (0: an earlier run of the program).
NoFile == [exists |-> FALSE, content |-> <<>>, mtime |-> 0, writer |-> 0]
\* The cache file as an earlier run left it: missing, stale or fresh.
InitialCacheFiles ==
    {NoFile} \cup {[exists |-> TRUE, content |-> Content.old, mtime |-> m,
                    writer |-> 0] : m \in {0 - SKILL_CACHE_TTL, 0}}

ResIds == DOMAIN res

\* A resolution: its position, the instructions fetchFromSource holds or
\* returned, the URL it fetches, the fetch() calls it made, and what the
\* caller got (read once pc is "returned").  path is history: the branch it
\* returned from.
IdleRes(e) ==
    [pc |-> "idle", instructions |-> NoText, url |-> NoText, fetches |-> 0,
     ret |-> e, path |-> "none"]

\* fs.writeFile writes at offset 0 of the file it opened; what another
\* writer put beyond the new data stays.
Overlay(data, old) == data \o SubSeq(old, Len(data) + 1, Len(old))

\* Variant: a stale cache file still counts as a hit.
CacheIsFresh_Always(file, t) == file.exists

\* Variant: the cache file never counts as a hit.
CacheIsFresh_Never(file, t) == FALSE

\* catalog.ts:89-90, the stat succeeded and the file is younger than the TTL
CacheIsFresh(file, t) == file.exists /\ t - file.mtime < SKILL_CACHE_TTL

\* Variant: the entry is returned with whatever the fetch gave, null included.
ResolvedEntry_Unchecked(e, instructions) ==
    [e EXCEPT !.instructions = instructions.val]

\* catalog.ts:74-77, what resolveSource returns for what fetchFromSource gave
ResolvedEntry(e, instructions) ==
    IF instructions.present /\ instructions.val # <<>>
    THEN [e EXCEPT !.instructions = instructions.val]
    ELSE e

\* Variant: every entry that has a source is resolved.
NeedsResolution_AnySource(e) == e.source.present /\ e.source.val # <<>>

\* catalog.ts:69-71
NeedsResolution(e) ==
    /\ e.source.present /\ e.source.val # <<>>
    /\ ~(e.instructions # <<>> /\ e.instructions # e.description)

\* resolveSource returns to the caller of getEntryById.
Returns(r, instructions, path) ==
    [res[r] EXCEPT !.pc = "returned", !.instructions = instructions,
                   !.ret = ResolvedEntry(resEntry, instructions),
                   !.path = path]

\* Variant: a failed fetch is not caught and reaches the caller.
OnFetchFailure_Rethrow(r, kind) ==
    [res[r] EXCEPT !.pc = "threw", !.path = kind]

\* catalog.ts:101-104 and 116-119, the response is not ok or fetch() threw:
\* the failure is logged and fetchFromSource returns null.
OnFetchFailure(r, kind) == Returns(r, NoText, kind)

\* catalog.ts:95-100, after a cache miss: no URL, or the fetch is started.
AfterMiss(r) ==
    IF resolveSourceUrl(resEntry.source.val).present
    THEN [res[r] EXCEPT !.pc = "fetch", !.fetches = @ + 1,
                        !.url = resolveSourceUrl(resEntry.source.val)]
    ELSE Returns(r, NoText, "nourl")

\* getEntryById finds the entry and hands it to resolveSource, which
\* returns it as it is or enters fetchFromSource up to its first await.
\* Resolutions are numbered in the order they start.
StartResolve(r) ==
    /\ res[r].pc = "idle"
    /\ \A q \in ResIds : q < r => res[q].pc # "idle"
    /\ res' = [res EXCEPT ![r] =
                IF NeedsResolution(resEntry)
                THEN [@ EXCEPT !.pc = "stat"]
                ELSE [@ EXCEPT !.pc = "returned", !.path = "asis"]]
    /\ UNCHANGED <<resEntry, cacheFile, clock, clockTicks, fetched>>
    /\ UNCHANGED outsideResolve

\* The same, when no other resolution is under way.
StartResolveAlone(r) ==
    /\ \A q \in ResIds : res[q].pc \in {"idle", "returned"}
    /\ StartResolve(r)

\* catalog.ts:89-90, fs.stat settles: fresh, or the miss path up to fetch().
StatCache(r) ==
    /\ res[r].pc = "stat"
    /\ res' = [res EXCEPT ![r] =
                IF CacheIsFresh(cacheFile, clock)
                THEN [@ EXCEPT !.pc = "read"]
                ELSE AfterMiss(r)]
    /\ UNCHANGED <<resEntry, cacheFile, clock, clockTicks, fetched>>
    /\ UNCHANGED outsideResolve

\* catalog.ts:91, fs.readFile settles with what the file holds now.
ReadCache(r) ==
    /\ res[r].pc = "read"
    /\ res' = [res EXCEPT ![r] =
                IF cacheFile.exists
                THEN Returns(r, SomeText(cacheFile.content), "hit")
                ELSE AfterMiss(r)]
    /\ UNCHANGED <<resEntry, cacheFile, clock, clockTicks, fetched>>
    /\ UNCHANGED outsideResolve

\* catalog.ts:100-112, fetch() and response.text() settle; on success the
\* body is parsed and the cache directory made, up to fs.writeFile.
FetchResponds(r, outcome) ==
    /\ res[r].pc = "fetch"
    /\ IF outcome.kind = "ok"
       THEN /\ res' = [res EXCEPT ![r] =
                        [@ EXCEPT !.pc = "open",
                            !.instructions = SomeText(parseSkillMd(outcome.body))]]
            /\ fetched' = fetched \cup {parseSkillMd(outcome.body)}
       ELSE /\ res' = [res EXCEPT ![r] = OnFetchFailure(r, outcome.kind)]
            /\ UNCHANGED fetched
    /\ UNCHANGED <<resEntry, cacheFile, clock, clockTicks>>
    /\ UNCHANGED outsideResolve

\* catalog.ts:113, fs.writeFile opens the file for writing: it is created
\* or cut to length 0.
WriteOpen(r) ==
    /\ res[r].pc = "open"
    /\ cacheFile' = [exists |-> TRUE, content |-> <<>>, mtime |-> clock,
                     writer |-> r]
    /\ res' = [res EXCEPT ![r].pc = "write"]
    /\ UNCHANGED <<resEntry, clock, clockTicks, fetched>>
    /\ UNCHANGED outsideResolve

\* catalog.ts:113-115, fs.writeFile writes the data and settles, and
\* fetchFromSource returns the instructions.
WriteData(r) ==
    /\ res[r].pc = "write"
    /\ cacheFile' = [cacheFile EXCEPT
                        !.content = Overlay(res[r].instructions.val, @),
                        !.mtime = clock]
    /\ res' = [res EXCEPT ![r] = Returns(r, res[r].instructions, "fetched")]
    /\ UNCHANGED <<resEntry, clock, clockTicks, fetched>>
    /\ UNCHANGED outsideResolve

ClockTick(delta) ==
    /\ clockTicks < MaxClockTicks
    /\ clock' = clock + delta
    /\ clockTicks' = clockTicks + 1
    /\ UNCHANGED <<resEntry, cacheFile, res, fetched>>
    /\ UNCHANGED outsideResolve

ResolveSteps ==
    \/ \E r \in ResIds : StatCache(r)
    \/ \E r \in ResIds : ReadCache(r)
    \/ \E r \in ResIds, outcome \in FetchOutcomes : FetchResponds(r, outcome)
    \/ \E r \in ResIds : WriteOpen(r)
    \/ \E r \in ResIds : WriteData(r)
    \/ \E delta \in {SKILL_CACHE_TTL \div 2} : ClockTick(delta)

NextResolve ==
    \/ \E r \in ResIds : StartResolve(r)
    \/ ResolveSteps

NextRoundTrip ==
    \/ \E r \in ResIds : StartResolveAlone(r)
    \/ ResolveSteps

\* The entry of the overlapping resolutions: it has a source that
\* translates to a URL and its instructions are the placeholder.
UnresolvedEntry ==
    [id |-> "lint", description |-> Content.description, instructions |-> Content.description,
     source |-> SomeText(Source.githubDir)]

InitResolve(entries) ==
    /\ CatalogAtRest /\ DetectAtRest /\ MatcherAtRest /\ ServerAtRest
    /\ resEntry \in entries
    /\ cacheFile \in InitialCacheFiles
    /\ clock = 0 /\ clockTicks = 0
    /\ res = [r \in 1..NumRes |-> IdleRes(resEntry)]
    /\ fetched = IF cacheFile.exists THEN {cacheFile.content} ELSE {}

\* Resolutions of one id that may overlap.
SpecResolve == InitResolve({UnresolvedEntry}) /\ [][NextResolve]_vars

\* Resolutions of one id, one after the other.
SpecRoundTrip == InitResolve(ResolvableEntries) /\ [][NextRoundTrip]_vars

(***************************************************************************)
(* Properties of the resolution.                                           *)
(***************************************************************************)
DayMs == 24 * 60 * 60 * 1000

\* q fetched content, wrote the cache file and returned, and the file is
\* still the one q wrote.
WroteTheFile(q) ==
    /\ res[q].pc = "returned" /\ res[q].path = "fetched"
    /\ cacheFile.exists /\ cacheFile.writer = q

\* C11: once a resolution has fetched content and written the cache file,
\* a later resolution of the id whose stat finds that file younger than 24h
\* goes on to read it and makes no network call, and what it returns has
\* the instructions the first resolution returned.
C11_RoundTripThroughCache ==
    [][\A q \in ResIds, r \in ResIds :
        (q # r /\ WroteTheFile(q)) =>
            /\ (res[r].pc = "stat" /\ res'[r].pc # "stat"
                    /\ clock - cacheFile.mtime < DayMs) =>
                (res'[r].pc = "read" /\ res'[r].fetches = 0)
            /\ (res[r].pc = "read" /\ res'[r].pc # "read") =>
                /\ res'[r].pc = "returned" /\ res'[r].fetches = 0
                /\ res'[r].ret.instructions = res[q].ret.instructions]_vars

C11_Witness ==
    \E q \in ResIds, r \in ResIds :
        /\ q # r /\ WroteTheFile(q)
        /\ res[r].pc = "returned" /\ res[r].path = "hit" /\ res[r].fetches = 0
        /\ clock - cacheFile.mtime = DayMs \div 2
        /\ res[r].ret.instructions = <<"Run", " ", "eslint", " ", "--fix">>
        /\ res[q].ret.instructions = <<"Run", " ", "eslint", " ", "--fix">>

FailedPaths == {"nourl", "error", "notok"}

\* C12: a resolution of an unresolved entry that found no fresh cache file
\* and got no content (no URL for the locator, fetch() failed, response not
\* ok) returns, without an exception, the entry as it was, instructions
\* equal to the description, also when a stale cache file exists; it has
\* not written the cache file.
C12_FailedFetchReturnsEntry ==
    /\ [](\A r \in ResIds :
            /\ res[r].pc # "threw"
            /\ (res[r].path \in FailedPaths
                    /\ resEntry.instructions = resEntry.description) =>
                /\ res[r].pc = "returned"
                /\ res[r].ret = resEntry
                /\ res[r].ret.instructions = resEntry.description
                /\ ~(cacheFile.exists /\ cacheFile.writer = r))
    /\ [][\A r \in ResIds :
            /\ (res'[r].path \in FailedPaths /\ res[r].path = "none") =>
                    cacheFile' = cacheFile
            /\ (res[r].pc = "stat" /\ res'[r].pc = "read") =>
                    (cacheFile.exists /\ clock - cacheFile.mtime < DayMs)]_vars

C12_Witness ==
    \E r \in ResIds :
        /\ res[r].pc = "returned" /\ res[r].path = "error"
        /\ resEntry.instructions = resEntry.description
        /\ cacheFile.exists /\ cacheFile.content = Content.old
        /\ cacheFile.writer = 0
        /\ clock - cacheFile.mtime >= DayMs
        /\ res[r].ret = resEntry

\* C13: when resolutions of the id overlap, the content a resolution got
\* from the cache or wrote to it is the complete parsed body of one fetch
\* (or what an earlier run cached), and so is the content of the cache file
\* once every resolution has returned: never the empty or mixed content of
\* a write under way.
C13_NoCorruptionUnderOverlap ==
    /\ \A r \in ResIds :
        (res[r].pc = "returned" /\ res[r].path \in {"hit", "fetched"}) =>
            /\ res[r].instructions.val \in fetched
            /\ res[r].ret = ResolvedEntry(resEntry, res[r].instructions)
    /\ ((\A r \in ResIds : res[r].pc = "returned") /\ cacheFile.exists) =>
            cacheFile.content \in fetched

\* A resolution read the file another one had opened but not yet written.
C13_ReadOfOpenedFile ==
    \E r \in ResIds :
        /\ res[r].pc = "returned" /\ res[r].path = "hit"
        /\ res[r].instructions.val = <<>>
        /\ <<>> \notin fetched
        /\ res[r].ret.instructions = resEntry.description

(***************************************************************************)
(* features/workers/matcher.ts: WorkerMatcher.findMatch.  A text is the    *)
(* sequence of its characters.  Amounts are whole numbers: reputation in   *)
(* hundredths of a star, pricing and budget in cents, times in minutes and *)
(* scores in thousandths of a point, so that the score's terms are exact.  *)
(***************************************************************************)
AlphaNum ==
    {"a", "b", "c", "d", "e", "f", "g", "h", "i", "j", "k", "l", "m", "n",
     "o", "p", "q", "r", "s", "t", "u", "v", "w", "x", "y", "z", "0", "1",
     "2", "3", "4", "5", "6", "7", "8", "9"}

\* String.prototype.toLowerCase, on the letters the texts below use
ToLowerCase(text) ==
    LET lower(c) == CASE c = "C" -> "c" [] c = "F" -> "f"
                      [] c = "S" -> "s" [] c = "T" -> "t" [] OTHER -> c
    IN [i \in 1..Len(text) |-> lower(text[i])]

\* String.prototype.includes
Includes(text, part) ==
    \E i \in 0..(Len(text) - Len(part)) :
        \A j \in 1..Len(part) : text[i + j] = part[j]

\* normalized.match(/\b[a-z0-9]+\b/g) || []: the maximal runs of word
\* characters (\w: letters, digits and "_"), in order, that hold letters
\* and digits only.
RECURSIVE MatchWords(_)
MatchWords(text) ==
    IF Len(text) = 0 THEN <<>>
    ELSE IF Head(text) \notin AlphaNum \cup {"_"}
         THEN MatchWords(Tail(text))
    ELSE LET stops == {i \in 1..Len(text) : text[i] \notin AlphaNum \cup {"_"}}
             n == IF stops = {} THEN Len(text)
                  ELSE (CHOOSE i \in stops : \A j \in stops : i <= j) - 1
             run == SubSeq(text, 1, n)
             rest == MatchWords(SubSeq(text, n + 1, Len(text)))
         IN IF \A i \in 1..n : run[i] \in AlphaNum THEN <<run>> \o rest
            ELSE rest

stopWords ==
    {<<"t", "h", "e">>, <<"a">>, <<"a", "n">>, <<"a", "n", "d">>,
     <<"o", "r">>, <<"b", "u", "t">>, <<"i", "n">>, <<"o", "n">>,
     <<"a", "t">>, <<"t", "o">>, <<"f", "o", "r">>, <<"o", "f">>,
     <<"w", "i", "t", "h">>, <<"b", "y">>, <<"f", "r", "o", "m">>,
     <<"a", "s">>, <<"i", "s">>, <<"w", "a", "s">>, <<"a", "r", "e">>,
     <<"w", "e", "r", "e">>, <<"b", "e", "e", "n">>, <<"b", "e">>,
     <<"h", "a", "v", "e">>, <<"h", "a", "s">>, <<"h", "a", "d">>,
     <<"d", "o">>, <<"d", "o", "e", "s">>, <<"d", "i", "d">>,
     <<"w", "i", "l", "l">>, <<"w", "o", "u", "l", "d">>,
     <<"s", "h", "o", "u", "l", "d">>, <<"c", "o", "u", "l", "d">>,
     <<"m", "a", "y">>, <<"m", "i", "g", "h", "t">>, <<"m", "u", "s", "t">>,
     <<"c", "a", "n">>, <<"t", "h", "i", "s">>, <<"t", "h", "a", "t">>,
     <<"t", "h", "e", "s", "e">>, <<"t", "h", "o", "s", "e">>, <<"m", "y">>,
     <<"y", "o", "u", "r">>, <<"i">>, <<"y", "o", "u">>, <<"w", "e">>,
     <<"t", "h", "e", "y">>, <<"i", "t">>}

\* Array.from(new Set(words)): each word once, at its first occurrence
RECURSIVE Dedupe(_)
Dedupe(words) ==
    IF Len(words) = 0 THEN <<>>
    ELSE LET init == Dedupe(SubSeq(words, 1, Len(words) - 1))
             last == words[Len(words)]
         IN IF \E i \in 1..Len(init) : init[i] = last THEN init
            ELSE Append(init, last)

\* Variant: stop words are kept.
extractKeywords_KeepStopWords(task) ==
    Dedupe(SelectSeq(MatchWords(ToLowerCase(task)), LAMBDA w : Len(w) > 2))

extractKeywords(task) ==
    Dedupe(SelectSeq(MatchWords(ToLowerCase(task)),
                     LAMBDA w : Len(w) > 2 /\ w \notin stopWords))

\* Task texts.
Task ==
    [fixTypescript |->
        <<"f", "i", "x", " ", "m", "y", " ", "t", "y", "p", "e", "s", "c",
          "r", "i", "p", "t", " ", "e", "r", "r", "o", "r", "s">>,
     refactor |->
        <<"r", "e", "f", "a", "c", "t", "o", "r", " ", "t", "h", "i", "s",
          " ", "m", "o", "d", "u", "l", "e">>,
     mixedCase |->
        <<"F", "i", "x", " ", "t", "h", "e", " ", "C", "S", "S", ",", " ",
          "t", "h", "e", "n", " ", "f", "i", "x", " ", "T", "y", "p", "e",
          "S", "c", "r", "i", "p", "t">>,
     noKeywords |->
        <<"d", "o", " ", "i", "t">>,
     snakeCase |->
        <<"f", "i", "x", " ", "s", "n", "a", "k", "e", "_", "c", "a", "s",
          "e", " ", "n", "a", "m", "e", "s">>]


\* Texts of the skills table, and of capabilities and limitations.
Text ==
    [fixLints |->
        <<"F", "i", "x", " ", "l", "i", "n", "t", "s">>,
     fixesStyleErrors |->
        <<"F", "i", "x", "e", "s", " ", "s", "t", "y", "l", "e", " ", "e",
          "r", "r", "o", "r", "s">>,
     tsHelper |->
        <<"T", "S", " ", "h", "e", "l", "p", "e", "r">>,
     strictTypescriptSetup |->
        <<"S", "t", "r", "i", "c", "t", " ", "t", "y", "p", "e", "s", "c",
          "r", "i", "p", "t", " ", "s", "e", "t", "u", "p">>,
     typescript |->
        <<"t", "y", "p", "e", "s", "c", "r", "i", "p", "t">>,
     typeScriptCap |->
        <<"T", "y", "p", "e", "S", "c", "r", "i", "p", "t">>,
     noRefactors |->
        <<"n", "o", " ", "r", "e", "f", "a", "c", "t", "o", "r", "s">>,
     noModuleRefactors |->
        <<"n", "o", " ", "m", "o", "d", "u", "l", "e", " ", "r", "e", "f",
          "a", "c", "t", "o", "r", "s">>]

\* Rows of the skills table; a column that is NULL is NoText.
Skill ==
    [lint |->
        [id |-> "skill-lint", name |-> SomeText(Text.fixLints),
         description |-> SomeText(Text.fixesStyleErrors),
         category |-> NoText],
     ts |->
        [id |-> "skill-ts", name |-> SomeText(Text.tsHelper),
         description |-> SomeText(Text.strictTypescriptSetup),
         category |-> SomeText(Text.typescript)]]
SkillsTables ==
    {<<>>, <<Skill.lint>>, <<Skill.ts>>, <<Skill.lint, Skill.ts>>,
     <<Skill.ts, Skill.lint>>}

NoScore == [present |-> FALSE, val |-> 0]
Stars(hundredths) == [present |-> TRUE, val |-> hundredths]

\* The worker of the scoring scenarios: capability TypeScript, rated 4.80,
\* 120 jobs, $8.00, 15 minutes on average.
Ada ==
    [id |-> "ada", specialty |-> "typescript-fixes", status |-> "active",
     capabilities |-> <<Text.typeScriptCap>>, limitations |-> <<>>,
     reputationScore |-> Stars(480), completionCount |-> 120,
     pricing |-> 800, avgCompletionTime |-> 15]

\* Rows of the workers table, each Ada with some columns changed.
WorkerPool ==
    <<Ada,
      [Ada EXCEPT !.id = "bob", !.status = "pending"],
      [Ada EXCEPT !.id = "cy", !.specialty = "refactoring",
                  !.pricing = 6000, !.reputationScore = Stars(300)],
      [Ada EXCEPT !.id = "dee", !.limitations = <<Text.noRefactors>>,
                  !.reputationScore = NoScore, !.completionCount = 0,
                  !.capabilities = <<>>],
      [Ada EXCEPT !.id = "eve", !.status = "suspended",
                  !.specialty = "refactoring", !.pricing = 500],
      [Ada EXCEPT !.id = "fay", !.reputationScore = Stars(200),
                  !.completionCount = 12, !.avgCompletionTime = 60,
                  !.capabilities = <<>>],
      [Ada EXCEPT !.id = "gus", !.reputationScore = NoScore,
                  !.completionCount = 0, !.pricing = 5000,
                  !.avgCompletionTime = 100, !.capabilities = <<>>],
      [Ada EXCEPT !.id = "hal", !.pricing = 0, !.reputationScore = Stars(500)],
      [Ada EXCEPT !.id = "ian", !.completionCount = 51,
                  !.reputationScore = Stars(450)],
      [Ada EXCEPT !.id = "jo", !.specialty = "refactoring",
                  !.avgCompletionTime = 20, !.pricing = 1000]>>

\* A condition of a WHERE clause: eq(workers.status, ...), eq(workers.specialty,
\* ...) or workers.pricing::numeric <= amount.
Cond(column, text, amount) ==
    [column |-> column, text |-> text, amount |-> amount]

Satisfies(worker, cond) ==
    CASE cond.column = "status" -> worker.status = cond.text
      [] cond.column = "specialty" -> worker.specialty = cond.text
      [] cond.column = "pricing" -> worker.pricing <= cond.amount

\* Variant: each where() adds its condition to the ones the query has.
Where_Conjoin(query, cond) == Append(query, cond)

\* query.where(cond): the select builder holds one WHERE condition, and
\* where() sets it (drizzle-orm: this.config.where = where), so the
\* condition of an earlier where() is dropped.
Where(query, cond) == <<cond>>

\* Truthiness of the optional request fields: if (request.specialty),
\* if (request.budget).
TruthyText(opt) == opt.present /\ opt.val # ""
TruthyNumber(opt) == opt.present /\ opt.val # 0

\* matcher.ts:111-124, the query findWorkerMatches builds
WorkerQuery(req) ==
    LET q0 == Where(<<>>, Cond("status", "active", 0))
        q1 == IF TruthyText(req.specialty)
              THEN Where(q0, Cond("specialty", req.specialty.val, 0))
              ELSE q0
    IN IF TruthyNumber(req.budget)
       THEN Where(q1, Cond("pricing", "", req.budget.val))
       ELSE q1

\* await query: the rows that satisfy the query's conditions, in scan order
RunQuery(query, table) ==
    SelectSeq(table, LAMBDA w : \A i \in 1..Len(query) : Satisfies(w, query[i]))

Min(a, b) == IF a <= b THEN a ELSE b
Max(a, b) == IF a >= b THEN a ELSE b

\* `${reputation}` for a rating held in hundredths: 480 is "4.8"
FormatStars(h) ==
    LET whole == ToString(h \div 100)
        frac == h % 100
    IN IF frac = 0 THEN whole
       ELSE IF frac % 10 = 0 THEN whole \o "." \o ToString(frac \div 10)
       ELSE IF frac < 10 THEN whole \o ".0" \o ToString(frac)
       ELSE whole \o "." \o ToString(frac)

SomeIncludes(texts, kw) ==
    \E i \in 1..Len(texts) : Includes(ToLowerCase(texts[i]), kw)

\* Variant: a score on a threshold falls in the tier below.
Confidence_Strict(score) ==
    IF score > 70000 THEN "high"
    ELSE IF score > 40000 THEN "medium"
    ELSE "low"

\* matcher.ts:186-193
Confidence(score) ==
    IF score >= 70000 THEN "high"
    ELSE IF score >= 40000 THEN "medium"
    ELSE "low"

\* Variant: the limitation penalty is taken once per conflicting keyword.
ConflictPenalty_PerKeyword(worker, keywords) ==
    50000 * Len(SelectSeq(keywords,
                LAMBDA kw : SomeIncludes(worker.limitations, kw)))

\* matcher.ts:163-170
ConflictPenalty(worker, keywords) ==
    IF \E i \in 1..Len(keywords) : SomeIncludes(worker.limitations, keywords[i])
    THEN 50000 ELSE 0

\* Variant: experience is not capped.
ExperiencePoints_NoCap(worker) == worker.completionCount * 500

\* matcher.ts:144
ExperiencePoints(worker) == Min(worker.completionCount * 500, 20000)

\* Variant: a slower worker scores higher.
SpeedPoints_Inverted(worker) == Min(10000, 100 * worker.avgCompletionTime)

\* matcher.ts:180
SpeedPoints(worker) == Max(0, 10000 - 100 * worker.avgCompletionTime)

\* matcher.ts:132-200, the body of candidates.map
ScoreWorker(worker, keywords) ==
    LET reputation == IF worker.reputationScore.present
                      THEN worker.reputationScore.val ELSE 0
        matchingKeywords ==
            SelectSeq(keywords, LAMBDA kw : SomeIncludes(worker.capabilities, kw))
        hasConflict == ConflictPenalty(worker, keywords) > 0
        score == reputation * 100
                 + ExperiencePoints(worker)
                 + Len(matchingKeywords) * 10000
                 - ConflictPenalty(worker, keywords)
                 + Max(0, 10000 - 2 * worker.pricing)
                 + SpeedPoints(worker)
        confidence == Confidence(score)
        reasons ==
            (IF reputation >= 450
             THEN <<"High rating: " \o FormatStars(reputation) \o "/5">> ELSE <<>>)
            \o (IF worker.completionCount > 50
                THEN <<"Experienced: " \o ToString(worker.completionCount)
                        \o " jobs completed">>
                ELSE IF worker.completionCount > 10
                THEN <<ToString(worker.completionCount) \o " jobs completed">>
                ELSE <<>>)
            \o (IF Len(matchingKeywords) > 0
                THEN <<"Specialty match: " \o worker.specialty>> ELSE <<>>)
            \o (IF hasConflict
                THEN <<"May have limitations for this task">> ELSE <<>>)
            \o (IF worker.pricing <= 1000 THEN <<"Affordable pricing">> ELSE <<>>)
            \o (IF worker.avgCompletionTime <= 20
                THEN <<"Fast: ~" \o ToString(worker.avgCompletionTime)
                        \o " min avg">>
                ELSE <<>>)
            \o (IF confidence = "low" THEN <<"Low confidence match">> ELSE <<>>)
    IN [worker |-> worker, score |-> score, reasons |-> reasons,
        confidence |-> confidence]

\* Variant: ascending order.
SortsBefore_Ascending(a, b) == a.score <= b.score

\* matcher.ts:203, a stays before b when b.score - a.score is not positive
SortsBefore(a, b) == a.score >= b.score

\* Array.prototype.sort with that comparator: a stable sort, so candidates
\* of equal score keep the order the query gave them.
RECURSIVE SortByScore(_)
SortByScore(list) ==
    IF Len(list) <= 1 THEN list
    ELSE LET front == SortByScore(SubSeq(list, 1, Len(list) - 1))
             last == list[Len(list)]
             k == Cardinality({i \in 1..Len(front) : SortsBefore(front[i], last)})
         IN SubSeq(front, 1, k) \o <<last>> \o SubSeq(front, k + 1, Len(front))

\* Variant: candidates that score 0 are kept.
IsCompatible_ZeroKept(match) == match.score >= 0

\* matcher.ts:206
IsCompatible(match) == match.score > 0

\* Variant: the whole list is returned.
TopMatches_All(matches) == matches

\* matcher.ts:51, workerMatches.slice(0, 5)
TopMatches(matches) == SubSeq(matches, 1, Min(5, Len(matches)))

\* matcher.ts:92-94, the ILIKE conditions on a skill row for one keyword
SkillMatches(skill, kw) ==
    \E col \in {skill.name, skill.description, skill.category} :
        col.present /\ Includes(ToLowerCase(col.val), kw)

\* matcher.ts:89-102: the keywords findSkillMatch queries the db for, which
\* end with the first one that matched.
RECURSIVE KeywordsTried(_, _)
KeywordsTried(keywords, table) ==
    IF Len(keywords) = 0 THEN <<>>
    ELSE IF Len(SelectSeq(table, LAMBDA sk : SkillMatches(sk, Head(keywords)))) > 0
    THEN <<Head(keywords)>>
    ELSE <<Head(keywords)>> \o KeywordsTried(Tail(keywords), table)

NoSkill == [id |-> "none", name |-> NoText, description |-> NoText,
            category |-> NoText]

\* Variant: the first row that matches any keyword, in table order.
findSkillMatch_RowFirst(keywords, table) ==
    LET rows == SelectSeq(table, LAMBDA sk :
                    \E i \in 1..Len(keywords) : SkillMatches(sk, keywords[i]))
    IN IF Len(rows) > 0 THEN Head(rows) ELSE NoSkill

\* matcher.ts:84-105, with limit: 1 giving the first matching row scanned
findSkillMatch(keywords, table) ==
    LET tried == KeywordsTried(keywords, table)
        rows == IF Len(tried) = 0 THEN <<>>
                ELSE SelectSeq(table, LAMBDA sk : SkillMatches(sk, tried[Len(tried)]))
    IN IF Len(rows) > 0 THEN Head(rows) ELSE NoSkill

\* matcher.ts:59-79
getRecommendationReason(task) ==
    LET text == ToLowerCase(task)
        reasons ==
            (IF Includes(text, <<"r", "e", "f", "a", "c", "t", "o", "r">>)
                \/ Includes(text, <<"r", "e", "d", "e", "s", "i", "g", "n">>)
             THEN <<"Requires design judgment and multi-step thinking">>
             ELSE <<>>)
            \o (IF Includes(text, <<"c", "o", "m", "p", "l", "e", "x">>)
                    \/ Includes(text, <<"m", "u", "l", "t", "i", "p", "l", "e">>)
                THEN <<"Multi-step task requiring human oversight">> ELSE <<>>)
            \o (IF Includes(text, <<"c", "u", "s", "t", "o", "m">>)
                    \/ Includes(text, <<"s", "p", "e", "c", "i", "f", "i", "c">>)
                THEN <<"Custom work tailored to your needs">> ELSE <<>>)
    IN IF Len(reasons) = 0 THEN <<"Task requires flexible problem-solving">>
       ELSE reasons

Result(type, skill, matches, text) ==
    [type |-> type, skill |-> skill, matches |-> matches, text |-> text]

\* matcher.ts:111-200, the candidates the query gives, each scored
ScoredCandidates(req, table) ==
    LET candidates == RunQuery(WorkerQuery(req), table)
        keywords == extractKeywords(req.task)
    IN [i \in 1..Len(candidates) |-> ScoreWorker(candidates[i], keywords)]

\* matcher.ts:110-207
findWorkerMatches(req, table) ==
    SelectSeq(SortByScore(ScoredCandidates(req, table)), IsCompatible)

\* matcher.ts:32-54, findMatch as a whole: the skill step, and the worker
\* step when no skill matched.
CallFindMatch ==
    /\ matchPc = "idle"
    /\ LET keywords == extractKeywords(request.task)
           tried == KeywordsTried(keywords, skillsTable)
           skillLog == [i \in 1..Len(tried) |->
                            [table |-> "skills", keyword |-> tried[i],
                             where |-> <<>>]]
           skillMatch == findSkillMatch(keywords, skillsTable)
           workerMatches == findWorkerMatches(request, workersTable)
       IN IF skillMatch # NoSkill
          THEN /\ matchResult' = Result("skill", skillMatch, <<>>, <<>>)
               /\ scored' = <<>>
               /\ dbLog' = skillLog
          ELSE /\ scored' = ScoredCandidates(request, workersTable)
               /\ dbLog' = Append(skillLog,
                             [table |-> "workers", keyword |-> <<>>,
                              where |-> WorkerQuery(request)])
               /\ matchResult' =
                    IF Len(workerMatches) = 0
                    THEN Result("none", NoSkill, <<>>,
                            <<"No workers found matching your requirements. Try adjusting your request.">>)
                    ELSE Result("worker", NoSkill, TopMatches(workerMatches),
                            getRecommendationReason(request.task))
    /\ matchPc' = "done"
    /\ UNCHANGED <<skillsTable, workersTable, request>>
    /\ UNCHANGED outsideMatcher

NextMatcher == CallFindMatch

NumWorkers == 9         \* rows of WorkerPool the workers table may hold

\* specialty and budget left out of the request.
Unset == [specialty |-> [present |-> FALSE, val |-> ""],
          budget |-> [present |-> FALSE, val |-> 0]]

\* Any task; no specialty or one of two; no budget, $0, $5 or $8.
Requests ==
    {[task |-> task, specialty |-> sp, budget |-> b] :
        task \in {Task[k] : k \in DOMAIN Task},
        sp \in {Unset.specialty} \cup {[present |-> TRUE, val |-> v] :
                    v \in {"typescript-fixes", "refactoring"}},
        b \in {Unset.budget} \cup {[present |-> TRUE, val |-> v] :
                    v \in {0, 500, 800}}}

\* The workers table: any run of rows of the pool, scanned in either
\* direction, or no row.
WorkersTables ==
    LET tables == {SubSeq(WorkerPool, i, j) : i, j \in 1..NumWorkers}
        Reverse(list) == [i \in 1..Len(list) |-> list[Len(list) + 1 - i]]
    IN tables \cup {Reverse(table) : table \in tables}

InitMatcher ==
    /\ CatalogAtRest /\ DetectAtRest /\ ResolveAtRest /\ ServerAtRest
    /\ \/ skillsTable = <<>> /\ workersTable \in WorkersTables
       \/ /\ skillsTable \in SkillsTables \ {<<>>}
          /\ workersTable \in {<<>>, SubSeq(WorkerPool, 1, NumWorkers)}
    /\ request \in Requests
    /\ matchResult = Result("none", NoSkill, <<>>, <<>>)
    /\ matchPc = "idle" /\ scored = <<>> /\ dbLog = <<>>

SpecMatcher == InitMatcher /\ [][NextMatcher]_vars

\* Values of the columns the score reads.
Columns ==
    [reputationScore |-> {NoScore, Stars(300), Stars(480)},
     completionCount |-> {0, 30, 120},
     pricing |-> {0, 800, 6000},
     avgCompletionTime |-> {15, 60, 150},
     limitations |-> {<<>>, <<Text.noRefactors>>, <<Text.noModuleRefactors>>},
     capabilities |-> {<<>>, <<Text.typeScriptCap>>}]

ScoredWorkers ==
    {[Ada EXCEPT !.id = "w", !.reputationScore = r, !.completionCount = c,
                 !.pricing = p, !.avgCompletionTime = t,
                 !.limitations = l, !.capabilities = k] :
        r \in Columns.reputationScore, c \in Columns.completionCount,
        p \in Columns.pricing, t \in Columns.avgCompletionTime,
        l \in Columns.limitations, k \in Columns.capabilities}

\* w with one column among rating, completions, time and limitations changed.
OneColumnChanged(w) ==
    ({[w EXCEPT !.id = "v", !.reputationScore = r] :
            r \in Columns.reputationScore}
        \cup {[w EXCEPT !.id = "v", !.completionCount = c] :
            c \in Columns.completionCount}
        \cup {[w EXCEPT !.id = "v", !.avgCompletionTime = t] :
            t \in Columns.avgCompletionTime}
        \cup {[w EXCEPT !.id = "v", !.limitations = l] :
            l \in Columns.limitations})
    \ {[w EXCEPT !.id = "v"]}

\* Two active workers that differ in one column, and a request without
\* specialty or budget: both are candidates.
InitScoring ==
    /\ CatalogAtRest /\ DetectAtRest /\ ResolveAtRest /\ ServerAtRest
    /\ skillsTable = <<>>
    /\ \E w \in ScoredWorkers : \E v \in OneColumnChanged(w) :
            workersTable = <<w, v>>
    /\ \E task \in {Task[k] : k \in DOMAIN Task} :
            request = [task |-> task, specialty |-> Unset.specialty,
                       budget |-> Unset.budget]
    /\ matchResult = Result("none", NoSkill, <<>>, <<>>)
    /\ matchPc = "idle" /\ scored = <<>> /\ dbLog = <<>>

SpecScoring == InitScoring /\ [][NextMatcher]_vars

(***************************************************************************)
(* Properties of findMatch.                                                *)
(***************************************************************************)
TaskKeywords == extractKeywords(request.task)

\* Some row of the skills table has the keyword in its name, description
\* or category, whatever the case of the letters.
MentionedBySomeSkill(kw) ==
    \E i \in 1..Len(skillsTable) :
        \E col \in {skillsTable[i].name, skillsTable[i].description,
                    skillsTable[i].category} :
            col.present /\ Includes(ToLowerCase(col.val), kw)

SkillQueries == SelectSeq(dbLog, LAMBDA q : q.table = "skills")
WorkerQueries == SelectSeq(dbLog, LAMBDA q : q.table = "workers")

\* C14: the skill step comes first and takes the keywords in order of first
\* occurrence: when some keyword is mentioned by a skill, the result is a
\* skill that mentions the first such keyword, the keywords up to it were
\* the only queries and the workers table was not queried; workers are
\* queried and ranked only when no keyword is mentioned by any skill.
C14_SkillStepFirst ==
    matchPc = "done" =>
        LET hits == {i \in 1..Len(TaskKeywords) :
                        MentionedBySomeSkill(TaskKeywords[i])}
        IN IF hits # {}
           THEN LET first == CHOOSE i \in hits : \A j \in hits : i <= j
                IN /\ matchResult.type = "skill"
                   /\ \E i \in 1..Len(skillsTable) :
                        /\ matchResult.skill = skillsTable[i]
                        /\ \E col \in {skillsTable[i].name,
                                       skillsTable[i].description,
                                       skillsTable[i].category} :
                            /\ col.present
                            /\ Includes(ToLowerCase(col.val), TaskKeywords[first])
                   /\ Len(WorkerQueries) = 0 /\ scored = <<>>
                   /\ Len(dbLog) = first
                   /\ \A i \in 1..first : dbLog[i].keyword = TaskKeywords[i]
           ELSE /\ matchResult.type \in {"worker", "none"}
                /\ Len(WorkerQueries) = 1
                /\ Len(dbLog) = Len(TaskKeywords) + 1
                /\ \A i \in 1..Len(TaskKeywords) :
                        dbLog[i].table = "skills"
                        /\ dbLog[i].keyword = TaskKeywords[i]

C14_Witness ==
    /\ matchPc = "done"
    /\ request.task = Task.fixTypescript
    /\ skillsTable = <<Skill.ts, Skill.lint>>
    /\ Len(workersTable) > 0
    /\ matchResult.type = "skill" /\ matchResult.skill = Skill.lint
    /\ Len(dbLog) = 1

Matches == matchResult.matches

\* C15: every worker of a worker-match result has status active, whether
\* or not a specialty and a budget were supplied.
C15_OnlyActiveWorkers ==
    (matchPc = "done" /\ matchResult.type = "worker") =>
        \A i \in 1..Len(Matches) : Matches[i].worker.status = "active"

\* C16: with a specialty supplied every returned worker has that specialty,
\* and with a budget supplied, 0 included, every returned worker's pricing
\* is at most the budget.
C16_FiltersApplied ==
    (matchPc = "done" /\ matchResult.type = "worker") =>
        \A i \in 1..Len(Matches) :
            /\ request.specialty.present =>
                    Matches[i].worker.specialty = request.specialty.val
            /\ request.budget.present =>
                    Matches[i].worker.pricing <= request.budget.val

Rating(w) == IF w.reputationScore.present THEN w.reputationScore.val ELSE 0

KeywordIn(texts, kw) ==
    \E i \in 1..Len(texts) : Includes(ToLowerCase(texts[i]), kw)

Conflicts(w) ==
    \E i \in 1..Len(TaskKeywords) : KeywordIn(w.limitations, TaskKeywords[i])

\* The six terms of the score, in thousandths of a point.
SixTerms(w) ==
    Rating(w) * 100
    + Min(w.completionCount * 500, 20000)
    + 10000 * Cardinality({i \in 1..Len(TaskKeywords) :
                            KeywordIn(w.capabilities, TaskKeywords[i])})
    - (IF Conflicts(w) THEN 50000 ELSE 0)
    + Max(0, 10000 - 2 * w.pricing)
    + Max(0, 10000 - 100 * w.avgCompletionTime)

\* Capability typescript, rated 4.8, 120 jobs, $8, 15 minutes.
IsScenarioWorker(w) ==
    /\ w.capabilities = <<Text.typeScriptCap>> /\ w.limitations = <<>>
    /\ w.reputationScore = Stars(480) /\ w.completionCount = 120
    /\ w.pricing = 800 /\ w.avgCompletionTime = 15

\* C17: the score of every candidate is the sum of the six terms
\* (reputation x 10, min(completions x 0.5, 20), 10 per keyword found in a
\* capability, -50 once when a keyword is found in a limitation,
\* max(0, 10 - pricing/5), max(0, 10 - avgCompletionTime/10)), and the
\* scenario worker scores at least 70 on "fix my typescript errors".
C17_ScoreIsSumOfSixTerms ==
    matchPc = "done" =>
        \A i \in 1..Len(scored) :
            /\ scored[i].score = SixTerms(scored[i].worker)
            /\ (request.task = Task.fixTypescript
                    /\ IsScenarioWorker(scored[i].worker)) =>
                scored[i].score >= 70000

C17_Witness ==
    /\ matchPc = "done"
    /\ request.task = Task.fixTypescript
    /\ \E i \in 1..Len(scored) :
        /\ IsScenarioWorker(scored[i].worker)
        /\ scored[i].score = 94900
        /\ scored[i].confidence = "high"

\* C18: of two candidates scored for the same task that differ in one
\* column, the one with the higher rating, the higher completion count or
\* the lower average time does not score less; and the one that differs by
\* a limitation a keyword is found in, where the other has no conflict,
\* scores exactly 50 less.
C18_ScoringIsMonotone ==
    matchPc = "done" =>
        /\ Len(scored) = 2
        /\ LET w == scored[1].worker
               v == scored[2].worker
           IN /\ (Rating(v) >= Rating(w)
                    /\ v.completionCount >= w.completionCount
                    /\ v.avgCompletionTime <= w.avgCompletionTime
                    /\ v.limitations = w.limitations) =>
                    scored[2].score >= scored[1].score
              /\ (~Conflicts(w) /\ Conflicts(v)
                    /\ v = [w EXCEPT !.id = v.id, !.limitations = v.limitations]) =>
                    scored[2].score = scored[1].score - 50000

C18_Witness ==
    /\ matchPc = "done"
    /\ request.task = Task.refactor
    /\ Len(scored) = 2
    /\ scored[1].worker.limitations = <<>>
    /\ scored[2].worker.limitations = <<Text.noRefactors>>
    /\ scored[1].score = 84900
    /\ scored[2].score = 34900

\* C19: the tier of every scored candidate follows from its score: high
\* from 70, medium from 40 to under 70, low under 40; and the reason
\* 'Low confidence match' is among its reasons exactly when the tier is low.
C19_TierFromScore ==
    matchPc = "done" =>
        \A i \in 1..Len(scored) :
            LET s == scored[i].score
                tier == scored[i].confidence
            IN /\ (s >= 70000) => tier = "high"
               /\ (s >= 40000 /\ s < 70000) => tier = "medium"
               /\ (s < 40000) => tier = "low"
               /\ ("Low confidence match" \in Range(scored[i].reasons))
                    <=> (tier = "low")

C19_Witness ==
    /\ matchPc = "done"
    /\ Len(scored) = 2
    /\ scored[1].score = 70000 /\ scored[1].confidence = "high"
    /\ scored[2].score = 40000 /\ scored[2].confidence = "medium"
    /\ "Low confidence match" \notin Range(scored[2].reasons)

IsReturned(candidate) == \E i \in 1..Len(Matches) : Matches[i] = candidate

IsEligible(w) ==
    /\ w.status = "active"
    /\ request.specialty.present => w.specialty = request.specialty.val
    /\ request.budget.present => w.pricing <= request.budget.val

NoSkillMentioned ==
    \A i \in 1..Len(TaskKeywords) : ~MentionedBySomeSkill(TaskKeywords[i])

\* C21: a worker-match result is never empty, and when no skill matches and
\* no eligible worker of the table scores above 0 the result is the "none"
\* outcome with its message.
C21_NoneWhenNoEligibleCandidate ==
    matchPc = "done" =>
        /\ matchResult.type = "worker" => Len(Matches) > 0
        /\ (/\ NoSkillMentioned
            /\ \A i \in 1..Len(workersTable) :
                    IsEligible(workersTable[i]) =>
                        SixTerms(workersTable[i]) <= 0) =>
                /\ matchResult.type = "none"
                /\ Len(matchResult.text) = 1
                /\ Matches = <<>>

\* The part of C21 that is about the candidates the query gave: a
\* worker-match result is never empty, and the result is "none" when no skill
\* matched and none of the scored candidates has a score above 0.
C21_NoneWhenNoScoredCandidate ==
    matchPc = "done" =>
        /\ matchResult.type = "worker" => Len(Matches) > 0
        /\ (/\ NoSkillMentioned
            /\ \A k \in 1..Len(scored) : scored[k].score <= 0) =>
                /\ matchResult.type = "none"
                /\ Len(matchResult.text) = 1
                /\ Matches = <<>>

\* All candidates were dropped: the only candidate scored 0.
C21_AllDropped ==
    /\ matchPc = "done" /\ matchResult.type = "none"
    /\ Len(scored) = 1 /\ scored[1].score <= 0

(***************************************************************************)
(* Properties of the derived languages and framework.                      *)
(***************************************************************************)
\* The root directory lists a visible file with the extension.
ExtensionSeen(d, e) ==
    \E f \in d.root : f.kind = "file" /\ ~f.hidden /\ f.ext = e

LanguageRule(d, lang) ==
    CASE lang = "TypeScript" ->
            "tsconfig.json" \in d.present \/ ExtensionSeen(d, ".ts")
                \/ ExtensionSeen(d, ".tsx")
      [] lang = "JavaScript" -> ExtensionSeen(d, ".js") \/ ExtensionSeen(d, ".jsx")
      [] lang = "Python" ->
            "pyproject.toml" \in d.present \/ ExtensionSeen(d, ".py")
      [] lang = "Rust" -> "Cargo.toml" \in d.present \/ ExtensionSeen(d, ".rs")
      [] lang = "Go" -> "go.mod" \in d.present \/ ExtensionSeen(d, ".go")

Languages == {"TypeScript", "JavaScript", "Python", "Rust", "Go"}

\* C24: the languages of a returned profile are not empty, each of the five
\* languages is listed exactly when its rule holds for the workspace, and
\* "Unknown" is listed, alone, exactly when no rule holds.
C24_LanguagesFollowRules ==
    \A c \in CallIds :
        calls[c].pc = "returned" =>
            LET d == disk[calls[c].ws]
                language == calls[c].ret.language
                listed == Range(language)
            IN /\ Len(language) > 0
               /\ listed \subseteq Languages \cup {"Unknown"}
               /\ Cardinality(listed) = Len(language)
               /\ \A lang \in Languages : lang \in listed <=> LanguageRule(d, lang)
               /\ "Unknown" \in listed <=> \A lang \in Languages : ~LanguageRule(d, lang)
               /\ "Unknown" \in listed => language = <<"Unknown">>

\* Two languages together: a .jsx file and Cargo.toml.
C24_Witness ==
    /\ calls[1].pc = "returned"
    /\ disk["W1"].present = {"Cargo.toml"}
    /\ ExtensionSeen(disk["W1"], ".jsx") /\ ~ExtensionSeen(disk["W1"], ".rs")
    /\ calls[1].ret.language = <<"JavaScript", "Rust">>

\* The packages that name a framework, in the order they are looked for.
FrameworkPriority ==
    <<<<"next", "Next.js">>, <<"nuxt", "Nuxt">>, <<"@sveltejs/kit", "SvelteKit">>,
      <<"svelte", "Svelte">>, <<"@angular/core", "Angular">>, <<"vue", "Vue">>,
      <<"react", "React">>, <<"express", "Express">>, <<"fastify", "Fastify">>,
      <<"hono", "Hono">>>>

\* C25: the framework of a returned profile is that of the first package of
\* the priority list found among the manifest's dependencies and
\* devDependencies, and null when the manifest is missing or unparsable or
\* lists none of them.
C25_FirstFrameworkWins ==
    \A c \in CallIds :
        calls[c].pc = "returned" =>
            LET d == disk[calls[c].ws]
                listed == d.dependencies \cup d.devDependencies
                hits == {i \in 1..Len(FrameworkPriority) :
                            FrameworkPriority[i][1] \in listed}
            IN IF d.exists /\ d.manifest = "ok" /\ hits # {}
               THEN LET first == CHOOSE i \in hits : \A j \in hits : i <= j
                    IN calls[c].ret.framework = FrameworkPriority[first][2]
               ELSE calls[c].ret.framework = "null"

\* react is a dependency and next a devDependency: Next.js wins.
C25_Witness ==
    /\ calls[1].pc = "returned"
    /\ disk["W1"].dependencies = {"react"}
    /\ disk["W1"].devDependencies = {"next"}
    /\ calls[1].ret.framework = "Next.js"

(***************************************************************************)
(* Properties of the locator translation and of resolveSource.             *)
(***************************************************************************)
\* The raw-content URL of github:owner/repo/path
RawContentUrl(owner, repo, path) ==
    <<"https://", "raw.githubusercontent.com", "/">> \o owner \o <<"/">>
        \o repo \o <<"/", "main", "/">> \o path
        \o (IF Len(path) > 0 /\ path[Len(path)] = ".md" THEN <<>>
            ELSE <<"/", "SKILL", ".md">>)

\* The URL a locator stands for.  allowEmpty: a github locator whose owner
\* or repository is the empty string still names a URL.
ExpectedUrl(s, allowEmpty) ==
    IF Len(s) > 0 /\ s[1] \in {"http://", "https://"} THEN SomeText(s)
    ELSE IF Len(s) >= 4 /\ s[1] = "github:" /\ s[2] # "/" /\ s[3] = "/"
                /\ s[4] # "/"
    THEN SomeText(RawContentUrl(<<s[2]>>, <<s[4]>>, SubSeq(s, 6, Len(s))))
    ELSE IF allowEmpty /\ s = <<"github:", "acme", "/">>
    THEN SomeText(RawContentUrl(<<"acme">>, <<>>, <<>>))
    ELSE NoText

FollowsTranslation(allowEmpty) ==
    \A r \in ResIds :
        LET expected == ExpectedUrl(resEntry.source.val, allowEmpty)
        IN /\ res[r].url.present <=> res[r].fetches > 0
           /\ res[r].fetches > 0 => res[r].url = expected
           /\ res[r].path = "nourl" => ~expected.present
           /\ res[r].pc \in {"fetch", "open", "write"} => expected.present
           /\ res[r].path \in {"error", "notok", "fetched"} => expected.present

\* C26: an http(s) locator is fetched as it is, github:owner/repo/path is
\* fetched from raw.githubusercontent.com/owner/repo/main/path, with
\* /SKILL.md added unless the path ends in .md, and any other locator, a
\* github locator without an owner and a repository included, gives no URL
\* and no network call.
C26_LocatorTranslation == FollowsTranslation(FALSE)

\* The same, but for the locator github:owner/ (two parts, the second one
\* empty), which the code translates.
C26_TranslationWithEmptyParts == FollowsTranslation(TRUE)

C26_EmptyRepositoryFetched ==
    \E r \in ResIds :
        /\ resEntry.source.val = Source.githubNoRepo
        /\ res[r].fetches > 0
        /\ res[r].url.val =
                <<"https://", "raw.githubusercontent.com", "/", "acme", "/", "/",
                  "main", "/", "/", "SKILL", ".md">>

\* The entry has a source, and its instructions are the placeholder.
Unresolved(e) ==
    e.source.present /\ (e.instructions = e.description \/ e.instructions = <<>>)

\* C27: an entry with no source, or with instructions of its own, is
\* returned as it is and neither the cache file nor the network is touched;
\* an entry with a source and placeholder instructions goes to the cache.
C27_OnlyUnresolvedAreResolved ==
    /\ [](\A r \in ResIds :
            res[r].pc # "idle" =>
                IF Unresolved(resEntry)
                THEN res[r].path # "asis"
                ELSE /\ res[r].pc = "returned" /\ res[r].path = "asis"
                     /\ res[r].ret = resEntry
                     /\ res[r].fetches = 0 /\ ~res[r].url.present)
    /\ [][/\ ~Unresolved(resEntry) =>
                (cacheFile' = cacheFile /\ fetched' = fetched)
           /\ \A r \in ResIds :
                (res[r].pc = "idle" /\ res'[r].pc # "idle") =>
                    (Unresolved(resEntry) <=> res'[r].pc = "stat")]_vars

\* An entry with a source and instructions of its own is returned as it
\* is, though a stale cache file exists.
C27_Witness ==
    \E r \in ResIds :
        /\ resEntry.source = SomeText(Source.githubDir)
        /\ resEntry.instructions = Content.inline
        /\ res[r].pc = "returned" /\ res[r].path = "asis"
        /\ res[r].ret = resEntry
        /\ cacheFile.exists /\ cacheFile.content = Content.old
        /\ clockTicks > 0

\* C28: when a resolution returns from a successful fetch, the cache file
\* holds exactly the instructions it returns, which are the body without
\* its leading metadata block.
C28_CacheHoldsWhatIsReturned ==
    [][\A r \in ResIds :
        (/\ res[r].pc = "write" /\ res'[r].pc = "returned"
         /\ res'[r].ret.instructions # resEntry.instructions) =>
            /\ res'[r].path = "fetched"
            /\ res'[r].ret.instructions = res'[r].instructions.val
            /\ cacheFile'.exists
            /\ cacheFile'.content = res'[r].ret.instructions
            /\ res'[r].ret.instructions \in
                    {<<"Use", " ", "eslint">>,
                     <<"Run", " ", "eslint", " ", "--fix">>}]_vars

\* A resolution returned fetched instructions with the file holding them.
C28_Sequential ==
    \E r \in ResIds :
        /\ res[r].pc = "returned" /\ res[r].path = "fetched"
        /\ res[r].ret.instructions = <<"Run", " ", "eslint", " ", "--fix">>
        /\ cacheFile.content = res[r].ret.instructions

(***************************************************************************)
(* Properties of the keyword extraction.                                   *)
(***************************************************************************)
\* The maximal runs of characters of the class, in order.
RECURSIVE Runs(_, _)
Runs(text, class) ==
    IF Len(text) = 0 THEN <<>>
    ELSE IF Head(text) \notin class THEN Runs(Tail(text), class)
    ELSE LET others == {i \in 1..Len(text) : text[i] \notin class}
             n == IF others = {} THEN Len(text)
                  ELSE (CHOOSE i \in others : \A j \in others : i <= j) - 1
         IN <<SubSeq(text, 1, n)>> \o Runs(SubSeq(text, n + 1, Len(text)), class)

FirstIndex(list, x) ==
    CHOOSE i \in 1..Len(list) : list[i] = x /\ \A j \in 1..(i - 1) : list[j] # x

\* The tokens that are longer than 2 characters and are no stop words,
\* each once, in the order of their first occurrence.
KeywordsAmong(tokens) ==
    LET kept == {t \in Range(tokens) : Len(t) > 2 /\ t \notin stopWords}
        Earlier(t) == {u \in kept : FirstIndex(tokens, u) < FirstIndex(tokens, t)}
    IN [i \in 1..Cardinality(kept) |->
            CHOOSE t \in kept : Cardinality(Earlier(t)) = i - 1]

\* The keywords the skill step tried are the first ones of the list, all of
\* them when no skill matched, and every candidate was scored with the list.
BothStepsUse(list) ==
    /\ Len(SkillQueries) <= Len(list)
    /\ \A i \in 1..Len(SkillQueries) : SkillQueries[i].keyword = list[i]
    /\ matchResult.type # "skill" => Len(SkillQueries) = Len(list)
    /\ \A k \in 1..Len(scored) :
            scored[k] = ScoreWorker(scored[k].worker, list)

\* C29: the keywords of a findMatch call are the alphanumeric tokens of the
\* lowercased task that are longer than 2 characters and are no stop words,
\* each once and in order of first occurrence, and the skill step and the
\* scoring both use that list.
C29_KeywordsAreAlphanumericTokens ==
    matchPc = "done" =>
        BothStepsUse(KeywordsAmong(Runs(ToLowerCase(request.task), AlphaNum)))

\* The same with the tokens the regular expression matches: the runs of
\* letters, digits and underscores that hold no underscore.
C29_KeywordsAreWordRuns ==
    matchPc = "done" =>
        BothStepsUse(KeywordsAmong(
            SelectSeq(Runs(ToLowerCase(request.task), AlphaNum \cup {"_"}),
                      LAMBDA t : "_" \notin Range(t))))

\* The word with an underscore gave no keyword.
C29_UnderscoreWordDropped ==
    /\ matchPc = "done" /\ request.task = Task.snakeCase
    /\ matchResult.type = "worker"
    /\ Len(SkillQueries) = 2
    /\ SkillQueries[1].keyword = <<"f", "i", "x">>
    /\ SkillQueries[2].keyword = <<"n", "a", "m", "e", "s">>

(***************************************************************************)
(* index.ts: the server.  A catalog tree is the sequence of its .yaml      *)
(* files in the order glob lists them; a file is its path below the root   *)
(* of the tree and the document yaml.parse makes of it.                    *)
(***************************************************************************)
MaxToolCalls == 2       \* tool calls the client sends in one behaviour

\* null, in the shape of an entry.
NullEntry ==
    [id |-> "null", origin |-> "none", hasDetect |-> FALSE, detect |-> NoRule,
     type |-> "null", description |-> <<>>, instructions |-> <<>>]

\* loadYamlEntry(filePath) on the file at a path of a tree: null when no
\* file is there (readFile throws) or when the file holds no entry.
loadYamlEntry(tree, origin, path) ==
    LET at == {k \in 1..Len(tree) : tree[k].path = path}
    IN IF at = {} THEN NullEntry
       ELSE LET e == tree[CHOOSE k \in at : TRUE].yaml
            IN IF ~e.isEntry THEN NullEntry
               ELSE [id |-> e.id, origin |-> origin,
                     hasDetect |-> e.detect.present,
                     detect |-> IF e.detect.present THEN e.detect.val
                                ELSE NoRule,
                     type |-> IF e.type.present THEN e.type.val ELSE "skill",
                     description |-> e.description,
                     instructions |-> IF e.instructions.present
                                      THEN e.instructions.val
                                      ELSE e.description]

\* loadYamlDir(dir): the entries of the files glob('**/*.yaml') lists, in
\* that order.  A missing directory lists no file.
loadYamlDir(tree, origin) ==
    LET IsEntry(e) == e # NullEntry
    IN SelectSeq([k \in 1..Len(tree) |-> loadYamlEntry(tree, origin, tree[k].path)],
                 IsEntry)

\* getEntryById(id).  The entries of this model have no source, so that
\* resolveSource returns them as they are (catalog.ts:69).
getEntryById(dirs, id) ==
    LET entry == loadYamlEntry(dirs.project, "project", <<id \o ".yaml">>)
        bundledFiles == dirs.bundled
        hits == {k \in 1..Len(bundledFiles) :
                    LET e == loadYamlEntry(bundledFiles, "bundled", bundledFiles[k].path)
                    IN e # NullEntry /\ e.id = id}
    IN IF entry # NullEntry THEN entry
       ELSE IF hits # {}
       THEN loadYamlEntry(bundledFiles, "bundled",
                          bundledFiles[CHOOSE k \in hits : \A j \in hits : k <= j].path)
       ELSE NullEntry

(***************************************************************************)
(* index.ts: formatSolveResponse.  A text is a sequence of tokens, as in   *)
(* the resolution; a line is a text without "\n".                          *)
(***************************************************************************)
\* Array.prototype.join on an array of texts.
RECURSIVE Join(_, _)
Join(list, separator) ==
    IF list = <<>> THEN <<>>
    ELSE IF Len(list) = 1 THEN list[1]
    ELSE list[1] \o separator \o Join(Tail(list), separator)

\* Variant: the instructions are pushed whether or not they repeat the
\* description.
formatSolveResponse_AlwaysInstructions(profile, entries, task, targetFiles) ==
    LET Names(list) == Join([k \in 1..Len(list) |-> <<list[k]>>], <<", ">>)
        When(cond, line) == IF cond THEN <<line>> ELSE <<>>
        deps == profile.dependencies
        topDeps == SubSeq(deps, 1, Min(15, Len(deps)))
        more == IF Len(deps) > 15
                THEN <<" (+", ToString(Len(deps) - 15), " more)">>
                ELSE <<>>
        EntryPart(entry) ==
            << <<"### ", entry.id, " (", entry.type, ")">>, entry.description >>
            \o << <<>>, Trim(entry.instructions) >>
            \o << <<>> >>
        parts ==
            << <<"## Your Project">>,
               <<"- Language: ">> \o Names(profile.language) >>
            \o When(profile.framework # "null",
                    <<"- Framework: ", profile.framework>>)
            \o When(Len(profile.configs) > 0,
                    <<"- Detected: ">> \o Names(profile.configs))
            \o When(Len(deps) > 0, <<"- Deps: ">> \o Names(topDeps) \o more)
            \o When(profile.packageManager # "null",
                    <<"- Package manager: ", profile.packageManager>>)
            \o << <<>> >>
            \o (IF Len(entries) > 0
                THEN << <<"## Available Solutions">>, <<>> >>
                     \o Join([k \in 1..Len(entries) |-> EntryPart(entries[k])], <<>>)
                ELSE << <<"## No catalog solutions matched this project.">>,
                        <<"Proceed with your own judgment.">>, <<>> >>)
            \o << <<"## User's Task">>, <<"\"">> \o task \o <<"\"">> >>
            \o When(targetFiles.present /\ Len(targetFiles.val) > 0,
                    <<"Target files: ">> \o Names(targetFiles.val))
            \o << <<>>,
                  <<"Pick the best solution and execute it. If none fit, use your own judgment.">> >>
    IN Join(parts, <<"\n">>)

formatSolveResponse(profile, entries, task, targetFiles) ==
    LET Names(list) == Join([k \in 1..Len(list) |-> <<list[k]>>], <<", ">>)
        When(cond, line) == IF cond THEN <<line>> ELSE <<>>
        deps == profile.dependencies
        topDeps == SubSeq(deps, 1, Min(15, Len(deps)))
        more == IF Len(deps) > 15
                THEN <<" (+", ToString(Len(deps) - 15), " more)">>
                ELSE <<>>
        EntryPart(entry) ==
            << <<"### ", entry.id, " (", entry.type, ")">>, entry.description >>
            \o (IF entry.instructions # <<>>
                   /\ entry.instructions # entry.description
                THEN << <<>>, Trim(entry.instructions) >>
                ELSE <<>>)
            \o << <<>> >>
        parts ==
            << <<"## Your Project">>,
               <<"- Language: ">> \o Names(profile.language) >>
            \o When(profile.framework # "null",
                    <<"- Framework: ", profile.framework>>)
            \o When(Len(profile.configs) > 0,
                    <<"- Detected: ">> \o Names(profile.configs))
            \o When(Len(deps) > 0, <<"- Deps: ">> \o Names(topDeps) \o more)
            \o When(profile.packageManager # "null",
                    <<"- Package manager: ", profile.packageManager>>)
            \o << <<>> >>
            \o (IF Len(entries) > 0
                THEN << <<"## Available Solutions">>, <<>> >>
                     \o Join([k \in 1..Len(entries) |-> EntryPart(entries[k])], <<>>)
                ELSE << <<"## No catalog solutions matched this project.">>,
                        <<"Proceed with your own judgment.">>, <<>> >>)
            \o << <<"## User's Task">>, <<"\"">> \o task \o <<"\"">> >>
            \o When(targetFiles.present /\ Len(targetFiles.val) > 0,
                    <<"Target files: ">> \o Names(targetFiles.val))
            \o << <<>>,
                  <<"Pick the best solution and execute it. If none fit, use your own judgment.">> >>
    IN Join(parts, <<"\n">>)

(***************************************************************************)
(* index.ts: the tools and the handler of a tools/call request.            *)
(***************************************************************************)
\* switch (name), with the tools it calls.  A thrown value is the pair of
\* `instanceof Error` and the message.  outcome is what the code outside
\* this handler comes to during the call, fetch() and the SkillLibrary of
\* skills.js: "ok", it answers; "notok", the response is not ok or the
\* skill is not there; "rejects", it throws an Error; "other", it throws a
\* value that is not an Error.
Dispatch(name, args, outcome) ==
    LET ErrorOf(message) == [isError |-> TRUE, message |-> message]
        NotAnError == [isError |-> FALSE, message |-> <<>>]
        \* reading a property of the arguments when the request has none
        ReadOfUndefined(property) ==
            Threw(ErrorOf(<<"Cannot read properties of undefined (reading '",
                            property, "')">>))
        solve ==
            LET profile == workspaceProfile
                entries ==
                    GetRelevantEntries(
                        loadYamlDir(catalogDirs.bundled, "bundled"),
                        loadYamlDir(catalogDirs.project, "project"),
                        [configs |-> Range(profile.configs),
                         dependencies |-> Range(profile.dependencies)])
            IN IF ~args.present THEN ReadOfUndefined("task")
               ELSE Returned(formatSolveResponse(profile, entries, args.task,
                                                 args.targetFiles))
        \* the catalog first, then the legacy SkillLibrary; the prompt
        \* formatForClaude writes is reduced to its heading
        executeSkill ==
            IF ~args.present THEN ReadOfUndefined("skillId")
            ELSE LET catalogEntry == getEntryById(catalogDirs, args.skillId)
                 IN CASE outcome = "rejects" -> Threw(ErrorOf(<<"ENOENT">>))
                      [] outcome = "other" -> Threw(NotAnError)
                      [] outcome = "notok" /\ catalogEntry = NullEntry ->
                            Threw(ErrorOf(<<"Skill not found: ", args.skillId>>))
                      [] OTHER ->
                            Returned(<<"# ", IF catalogEntry # NullEntry
                                             THEN catalogEntry.id
                                             ELSE args.skillId>>)
        \* (the text is kept without its backquotes)
        hireWorker ==
            Returned(<<"Worker marketplace coming soon.", "\n", "\n",
                       "For now, use solve to find available skills and CLI tools that can help with your task.">>)
        \* checkJob, approveJob, rejectJob, checkWallet: one fetch each; the
        \* text of a successful answer is reduced to its first words
        ApiTool(failed, ok) ==
            IF name # "check_wallet" /\ ~args.present
            THEN ReadOfUndefined("jobId")
            ELSE CASE outcome = "ok" -> Returned(<<ok>>)
                   [] outcome = "notok" -> Threw(ErrorOf(<<failed, "Not Found">>))
                   [] outcome = "rejects" -> Threw(ErrorOf(<<"fetch failed">>))
                   [] outcome = "other" -> Threw(NotAnError)
    IN CASE name = "solve" -> solve
         [] name = "execute_skill" -> executeSkill
         [] name = "hire_worker" -> hireWorker
         [] name = "check_job" -> ApiTool("Job fetch failed: ", "Job ")
         [] name = "approve_job" ->
                ApiTool("Approval failed: ",
                        "Job approved. Payment released to worker.")
         [] name = "reject_job" ->
                ApiTool("Rejection failed: ",
                        "Job rejected. Funds refunded to your wallet.")
         [] name = "check_wallet" ->
                ApiTool("Wallet fetch failed: ", "Wallet Balance: $")
         [] OTHER -> Threw(ErrorOf(<<"Unknown tool: ", name>>))

\* Variant: no catch clause, the thrown value leaves the handler.
Respond_NoCatch(result) ==
    IF result.threw
    THEN [escaped |-> TRUE, isError |-> FALSE, text |-> <<>>]
    ELSE [escaped |-> FALSE, isError |-> FALSE, text |-> result.val]

\* try { return await tool } catch (error) { return { ..., isError: true } }
Respond(result) ==
    IF result.threw
    THEN [escaped |-> FALSE, isError |-> TRUE,
          text |-> <<"Error: ">> \o (IF result.val.isError
                                      THEN result.val.message
                                      ELSE <<"Unknown error">>)]
    ELSE [escaped |-> FALSE, isError |-> FALSE, text |-> result.val]

\* The handler of one tools/call request, from the request to the response.
\* result and entry are history: what the tool came to, and what
\* getEntryById gave executeSkill.
CallTool ==
    /\ pending # <<>>
    /\ \E outcome \in {"ok", "notok", "rejects", "other"} :
        LET name == Head(pending).name
            args == Head(pending).arguments
            result == Dispatch(name, args, outcome)
        IN handled' = Append(handled,
                [name |-> name, arguments |-> args, result |-> result,
                 entry |-> IF name = "execute_skill" /\ args.present
                           THEN getEntryById(catalogDirs, args.skillId)
                           ELSE NullEntry,
                 response |-> Respond(result)])
    /\ pending' = Tail(pending)
    /\ UNCHANGED <<catalogDirs, workspaceProfile>>
    /\ UNCHANGED <<catalogVars, detectVars, resolveVars, matcherVars>>

NextServer == CallTool

\* What the specifications of the server draw from: arguments of a request,
\* profiles of the workspace, and catalog trees.
Server ==
    LET Args(task, targetFiles, skillId) ==
            [present |-> TRUE, task |-> task, targetFiles |-> targetFiles,
             skillId |-> skillId]
        File(path, id, type, description, instructions, detect) ==
            [path |-> path,
             yaml |-> [isEntry |-> TRUE, id |-> id, type |-> type,
                       description |-> description,
                       instructions |-> instructions, detect |-> detect]]
        Broken(path) == [path |-> path, yaml |-> [isEntry |-> FALSE]]
        NoDetect == [present |-> FALSE, val |-> NoRule]
        NeedsVercel ==
            [present |-> TRUE,
             val |-> [files |-> [present |-> TRUE, val |-> {"vercel.json"}],
                      dependencies |-> Absent, exclude_files |-> Absent]]
        \* up to two files of a tree, in either order
        Trees(files) ==
            {<<>>} \cup {<<f>> : f \in files}
            \cup {<<t[1], t[2]>> : t \in {u \in files \X files : u[1].path # u[2].path}}
        deployToVercel == <<"Deploy", " ", "to", " ", "Vercel">>
        lint == File(<<"lint.yaml">>, "lint", NoText, Content.description,
                     NoText, NoDetect)
        \* entries for the text of solve: instructions left out, padded with
        \* white space, empty, blank, and inline in the project's tree
        shown ==
            {lint,
             File(<<"deploy.yaml">>, "deploy", SomeText("cli"), deployToVercel,
                  SomeText(<<"\n", "Run", " ", "vercel", "\n">>), NeedsVercel),
             File(<<"format.yaml">>, "format", SomeText("skill"),
                  <<"Format", " ", "the", " ", "code">>, SomeText(<<>>), NoDetect),
             File(<<"blank.yaml">>, "blank", NoText, <<"Nothing">>,
                  SomeText(<<" ">>), NoDetect)}
        \* files for the lookup by id: named after the id or not, nested,
        \* without an entry, and two bundled files with one id
        bundledFiles ==
            {File(<<"lint.yaml">>, "lint", NoText, Content.description,
                  NoText, NoDetect),
             File(<<"more", "lint2.yaml">>, "lint", NoText, Content.old,
                  NoText, NoDetect),
             File(<<"deploy.yaml">>, "deploy", SomeText("cli"), deployToVercel,
                  NoText, NoDetect),
             Broken(<<"eslint.yaml">>)}
        projectFiles ==
            {File(<<"lint.yaml">>, "lint", NoText, Content.inline, NoText, NoDetect),
             File(<<"eslint.yaml">>, "lint", NoText, Content.inline, NoText,
                  NoDetect),
             File(<<"team", "lint.yaml">>, "lint", NoText, Content.inline,
                  NoText, NoDetect),
             Broken(<<"lint.yaml">>)}
    IN [noArguments |->
            [present |-> FALSE, task |-> <<>>, targetFiles |-> NoText,
             skillId |-> ""],
        someArguments |-> Args(<<"deploy", " ", "this">>, NoText, "lint"),
        tasks |->
            {Args(<<>>, NoText, "")}
            \cup {Args(<<"deploy", " ", "this">>, targetFiles, "") :
                    targetFiles \in {NoText, SomeText(<<>>),
                                     SomeText(<<"a.ts", "b.ts">>)}},
        skills |-> {Args(<<>>, NoText, id) : id \in {"lint", "eslint", "deploy"}},
        bare |-> [language |-> <<>>, framework |-> "null", configs |-> <<>>,
                  dependencies |-> <<>>, packageManager |-> "null"],
        nextJs |-> [language |-> <<"typescript", "javascript">>,
                    framework |-> "Next.js",
                    configs |-> <<"tsconfig.json", "vercel.json">>,
                    dependencies |-> <<"next", "react">>,
                    packageManager |-> "pnpm"],
        manyDeps |-> [language |-> <<"python">>, framework |-> "null",
                      configs |-> <<"pyproject.toml">>,
                      dependencies |->
                        <<"d1", "d2", "d3", "d4", "d5", "d6", "d7", "d8", "d9",
                          "d10", "d11", "d12", "d13", "d14", "d15", "d16", "d17">>,
                      packageManager |-> "null"],
        oneEntry |-> [bundled |-> <<lint>>, project |-> <<>>],
        solutions |->
            [bundled : Trees(shown),
             project : {<<>>,
                        <<File(<<"lint.yaml">>, "lint", NoText, Content.description,
                               SomeText(Content.inline), NoDetect)>>}],
        lookups |-> [bundled : Trees(bundledFiles), project : Trees(projectFiles)]]

\* The client sends up to MaxToolCalls of the requests, one after the other.
InitServer(requests, dirs, profiles) ==
    /\ CatalogAtRest /\ DetectAtRest /\ ResolveAtRest /\ MatcherAtRest
    /\ catalogDirs \in dirs
    /\ workspaceProfile \in profiles
    /\ pending \in UNION {[1..n -> requests] : n \in 1..MaxToolCalls}
    /\ handled = <<>>

\* Any tool name, registered or not, with or without arguments, in a
\* workspace without a manifest whose catalog holds one entry.
SpecServer ==
    InitServer([name : {"solve", "execute_skill", "hire_worker", "check_job",
                        "approve_job", "reject_job", "check_wallet",
                        "bogus", "Solve", ""},
                arguments : {Server.noArguments, Server.someArguments}],
               {Server.oneEntry}, {Server.bare})
        /\ [][NextServer]_vars

\* solve, on any of the profiles and of the catalogs.
SpecSolve ==
    InitServer([name : {"solve"}, arguments : Server.tasks],
               Server.solutions,
               {Server.bare, Server.nextJs, Server.manyDeps})
        /\ [][NextServer]_vars

\* execute_skill, which looks an id up in any of the trees.
SpecLookup ==
    InitServer([name : {"execute_skill"}, arguments : Server.skills],
               Server.lookups, {Server.bare})
        /\ [][NextServer]_vars

(***************************************************************************)
(* Properties of the server.                                               *)
(***************************************************************************)
\* The names the ListTools handler announces (index.ts:98-224).
RegisteredTools ==
    {"solve", "execute_skill", "hire_worker", "check_job", "approve_job",
     "reject_job", "check_wallet"}

\* C22: no exception leaves the handler of a tool call.  A call whose name
\* is not a registered tool is answered by a response flagged isError with
\* the text 'Error: Unknown tool: <name>'; a call whose tool threw is
\* answered by a response flagged isError with the text 'Error: ' and the
\* message of the Error ('Unknown error' when the thrown value is not an
\* Error); no other response is flagged.
C22_UnknownToolRejected ==
    \A k \in 1..Len(handled) :
        LET call == handled[k]
        IN /\ ~call.response.escaped
           /\ call.name \notin RegisteredTools =>
                /\ call.response.isError
                /\ call.response.text = <<"Error: ", "Unknown tool: ", call.name>>
           /\ call.result.threw =>
                /\ call.response.isError
                /\ call.response.text =
                        <<"Error: ">> \o (IF call.result.val.isError
                                          THEN call.result.val.message
                                          ELSE <<"Unknown error">>)
           /\ call.response.isError =>
                call.result.threw \/ call.name \notin RegisteredTools

\* An unknown name has been rejected, and a registered tool has thrown a
\* value that is not an Error.
C22_Witness ==
    /\ Len(handled) = 2
    /\ handled[1].name = "bogus"
    /\ handled[1].response.text = <<"Error: ", "Unknown tool: ", "bogus">>
    /\ handled[2].name = "check_wallet"
    /\ handled[2].result.threw /\ ~handled[2].result.val.isError
    /\ handled[2].response.isError

\* The entries solve hands to formatSolveResponse.
SolveEntries ==
    GetRelevantEntries(loadYamlDir(catalogDirs.bundled, "bundled"),
                       loadYamlDir(catalogDirs.project, "project"),
                       [configs |-> Range(workspaceProfile.configs),
                        dependencies |-> Range(workspaceProfile.dependencies)])

\* The handled solve calls that reached formatSolveResponse.
SolveCalls ==
    {k \in 1..Len(handled) :
        handled[k].name = "solve" /\ handled[k].arguments.present}

\* The heading and the description of an entry's block.
BlockHead(e) ==
    <<"### ", e.id, " (", e.type, ")", "\n">> \o e.description \o <<"\n">>

\* The instructions follow the description in the entry's block, between
\* two empty lines, before the next heading.
InstructionsEmitted(text, e) ==
    \E next \in {"### ", "## User's Task"} :
        Includes(text, BlockHead(e) \o <<"\n">> \o Trim(e.instructions)
                       \o <<"\n", "\n", next>>)

\* C23: the text of solve is a function of the profile, the entries, the
\* task and the target files, none of which the call changes: calls with
\* the same arguments give the same text; the text has the 'Available
\* Solutions' heading and a block for each entry exactly when there are
\* entries, and the 'No catalog solutions matched' notice exactly when
\* there are none; an entry's instructions are in its block exactly when
\* they are not empty and differ from its description.
C23_SolveTextFollowsEntries ==
    /\ [](\A k \in SolveCalls :
            LET text == handled[k].response.text
            IN /\ Includes(text, <<"## Available Solutions">>)
                    <=> SolveEntries # <<>>
               /\ Includes(text, <<"## No catalog solutions matched this project.">>)
                    <=> SolveEntries = <<>>
               /\ \A j \in 1..Len(SolveEntries) :
                    LET e == SolveEntries[j]
                    IN /\ Includes(text, BlockHead(e))
                       /\ InstructionsEmitted(text, e)
                            <=> /\ e.instructions # <<>>
                                /\ e.instructions # e.description
               /\ \A j \in SolveCalls :
                    handled[j].arguments = handled[k].arguments
                        => handled[j].response = handled[k].response)
    /\ [][/\ catalogDirs' = catalogDirs
          /\ workspaceProfile' = workspaceProfile
          /\ handled'[Len(handled')].arguments = Head(pending).arguments]_vars

\* solve has been called twice with the same arguments on a catalog with an
\* entry whose instructions repeat its description and one whose
\* instructions do not.
C23_Witness ==
    /\ Len(handled) = 2 /\ SolveCalls = {1, 2}
    /\ handled[1].arguments = handled[2].arguments
    /\ handled[1].arguments.targetFiles.present
    /\ \E i, j \in 1..Len(SolveEntries) :
        /\ SolveEntries[i].instructions = SolveEntries[i].description
        /\ ~InstructionsEmitted(handled[1].response.text, SolveEntries[i])
        /\ SolveEntries[j].instructions # SolveEntries[j].description
        /\ InstructionsEmitted(handled[1].response.text, SolveEntries[j])

\* The table getRelevantEntries builds before it filters.
MergedTable ==
    MergeById(loadYamlDir(catalogDirs.bundled, "bundled"),
              loadYamlDir(catalogDirs.project, "project"))

\* C30: the entry getEntryById returns for an id is null exactly when the
\* merged table has no entry with the id, and is otherwise the entry the
\* table holds for it.
C30_LookupAgreesWithMergedTable ==
    \A k \in 1..Len(handled) :
        (handled[k].name = "execute_skill" /\ handled[k].arguments.present) =>
            LET id == handled[k].arguments.skillId
                hits == {j \in 1..Len(MergedTable) : MergedTable[j].id = id}
            IN /\ handled[k].entry = NullEntry <=> hits = {}
               /\ hits # {} =>
                    handled[k].entry = MergedTable[CHOOSE j \in hits : TRUE]

\* The same, in a catalog where every file of the project's tree lies in
\* its root under the name of its entry's id, and no two bundled files
\* share an id.
C30_AgreesWhenFilesAreNamedById ==
    (/\ \A k \in 1..Len(catalogDirs.project) :
            LET f == catalogDirs.project[k]
            IN f.yaml.isEntry /\ f.path = <<f.yaml.id \o ".yaml">>
     /\ \A j, k \in 1..Len(catalogDirs.bundled) :
            LET f == catalogDirs.bundled[j]
                g == catalogDirs.bundled[k]
            IN (j # k /\ f.yaml.isEntry /\ g.yaml.isEntry) => f.yaml.id # g.yaml.id)
        => C30_LookupAgreesWithMergedTable

\* An id was looked up that the project's tree holds in a file of another
\* name: the lookup found nothing.
C30_EntryMissed ==
    /\ Len(handled) = 1
    /\ handled[1].arguments.skillId = "lint"
    /\ handled[1].entry = NullEntry
    /\ \E j \in 1..Len(MergedTable) : MergedTable[j].id = "lint"

====
